---- MODULE Spec2Model ----
(***************************************************************************)
(* A model of the customer-analytics core of Techmart: the two-tier cache  *)
(* (cacheService.js), the RFM / CLV / churn scorers and their shared       *)
(* customer_analytics table, the recommendation engine and the batch       *)
(* orchestrator.                                                           *)
(*                                                                         *)
(* Time is the wall clock in milliseconds (Date.now()).  These             *)
(* specifications share the variables:                                     *)
(*   SpecCache     the cache service, every await on the data store a      *)
(*                 separate step, so that calls of different callers       *)
(*                 interleave there as they do on the event loop;          *)
(*   SpecAnalytics the analytics handlers and batch runs over the ledger   *)
(*                 and customer_analytics, each call one step;             *)
(*   SpecReco      the recommendation engine, the ledger's writer and the  *)
(*                 caches in front of the engine, each call one step;      *)
(*   SpecBatch     the batch runners under the cron scheduler and the      *)
(*                 manual trigger, customer by customer, with failures.    *)
(*   SpecGetOrSet  getOrSet, get and set step by step, with a data store   *)
(*                 whose reads and writes can fail;                        *)
(*   SpecInvalidate del, invalidateCustomerCache and clear, call by call;  *)
(*   SpecRecoSteps the recommendation handler step by step, two callers,   *)
(*                 with sub-algorithm reads that can fail;                 *)
(*   SpecReadPaths the four single-item read paths, each call one step;    *)
(*   SpecScorers   the three scorers applied to drawn histories;           *)
(*   SpecRfmTwice  the RFM scorer called again as the clock advances;      *)
(*   SpecSegments, SpecCombine, SpecRiskLevel                              *)
(*                 determineSegment, combineRecommendations and            *)
(*                 getRiskLevel applied to drawn arguments;                *)
(*   SpecRecoLimits the recommendation handler called with different       *)
(*                 limits over stores nothing else writes to;              *)
(*   SpecOverview  getSegmentOverview over the table the RFM writers fill. *)
(***************************************************************************)
EXTENDS Integers, Sequences, FiniteSets, TLC

VARIABLES
  now,        \* Date.now(), in ms
  advances,   \* how many times the clock has been advanced
  mem,        \* memoryCache: key -> entry {v, t} (t = 0: never expires)
  db,         \* analytics_cache table: key -> row {value, type, expires_at}
  call,       \* the call each caller (SpecBatch: the run each job) has in flight;
              \* the arguments drawn, where a function is applied to them
  issued,     \* how many handler calls have been issued
  lastExp,    \* history: absolute expiry of the most recent set(k, ...)
  rt,         \* history: what the callers' sets (SpecRecoSteps: inserts) wrote;
              \* SpecRfmTwice: the scorer's call before the latest
  customers,  \* customers table: id -> {loyalty_tier, total_spent}
  ledger,     \* transactions table: customer id -> transactions, oldest first
  products,   \* products table: id -> {price, stock_quantity}
  rows,       \* customer_analytics table, in id order
  recs,       \* product_recommendations table, in id order
  last        \* history: the handler call that has just returned, and its result

clockVars == <<now, advances>>
tierVars == <<mem, db>>
callVars == <<call, issued, lastExp, rt>>
flightVars == <<call, lastExp, rt>>
storeVars == <<customers, ledger, products>>
derivedVars == <<rows, recs>>

vars == <<now, advances, mem, db, call, issued, lastExp, rt,
          customers, ledger, products, rows, recs, last>>

----------------------------------------------------------------------------
(* Units and bounds *)

MsPerSecond == 1000
SecondsPerHour == 3600
MsPerHour == SecondsPerHour * MsPerSecond

\* The clock is advanced at most this many times in a behaviour.
MaxAdvances == 2

\* At most this many cache calls are issued in a behaviour.
MaxCalls == 4

\* The steps the clock advances by: a second, and an hour less half a second.
HalfSecond == 500
ClockDeltas == {MsPerSecond, MsPerHour - HalfSecond}

Procs == {1, 2}

----------------------------------------------------------------------------
(* Keys and values *)

\* `customer:${customerId}:${type}`
generateCustomerKey(customerId, type) == <<"customer", customerId, type>>

CacheKeys == {generateCustomerKey(1, "rfm")}
CacheTypes == {"rfm", "clv"}
\* Every caller caches a key under the type its name ends with.
KeyType(k) == k[3]
CacheValues == {[data |-> 1], [data |-> 2]}
TTLHours == {1}

\* JavaScript's null / undefined
Null == [null |-> TRUE]

----------------------------------------------------------------------------
(* node-cache, as memoryCache uses it: stdTTL 21600, useClones false *)

NoEntry == [has |-> FALSE, v |-> Null, t |-> 0]

\* _wrap(value, ttl): ttl 0 means "never expires" (t = 0), any other ttl an
\* absolute expiry of now + ttl * 1000.
memWrap(value, ttl, t0) ==
  [has |-> TRUE, v |-> value,
   t |-> IF ttl = 0 THEN 0 ELSE t0 + ttl * MsPerSecond]

\* _check(key, data): an entry is expired when t # 0 and t < Date.now().
memLive(m, key, t0) ==
  /\ m[key].has
  /\ ~(m[key].t # 0 /\ m[key].t < t0)

\* memoryCache.get(key): the value, or undefined; an expired entry is deleted.
memGet(m, key, t0) == IF memLive(m, key, t0) THEN m[key].v ELSE Null

memAfterGet(m, key, t0) ==
  IF m[key].has /\ ~memLive(m, key, t0) THEN [m EXCEPT ![key] = NoEntry] ELSE m

\* A fast tier that keeps the value a key already holds.
memSetIfAbsent(m, key, value, ttl, t0) ==
  IF m[key].has THEN m ELSE [m EXCEPT ![key] = memWrap(value, ttl, t0)]

\* memoryCache.set(key, value, ttl)
memSet(m, key, value, ttl, t0) == [m EXCEPT ![key] = memWrap(value, ttl, t0)]

\* memoryCache.del(key)
memDel(m, key) == [m EXCEPT ![key] = NoEntry]

\* memoryCache.flushAll()
memFlushAll(m) == [k \in DOMAIN m |-> NoEntry]

----------------------------------------------------------------------------
(* The analytics_cache table (AnalyticsCache, cache_key unique) *)

NoRow == [has |-> FALSE, v |-> Null, type |-> "", exp |-> 0]

\* AnalyticsCache.findOne({where: {cache_key, expires_at >= asOf}})
dbFindOne(d, key, asOf) ==
  IF d[key].has /\ d[key].exp >= asOf THEN d[key] ELSE NoRow

\* AnalyticsCache.upsert({cache_key, cache_value, cache_type, expires_at})
dbUpsert(d, key, value, type, expiresAt) ==
  [d EXCEPT ![key] = [has |-> TRUE, v |-> value, type |-> type, exp |-> expiresAt]]

\* AnalyticsCache.destroy({where: {cache_key}})
dbDestroyKey(d, key) == [d EXCEPT ![key] = NoRow]

\* AnalyticsCache.destroy({where: cacheType ? {cache_type: cacheType} : {}})
dbDestroyType(d, cacheType) ==
  [k \in DOMAIN d |->
     IF cacheType = "" \/ d[k].type = cacheType THEN NoRow ELSE d[k]]

\* AnalyticsCache.destroy({where: {expires_at < asOf}})
dbDestroyExpired(d, asOf) ==
  [k \in DOMAIN d |-> IF d[k].has /\ d[k].exp < asOf THEN NoRow ELSE d[k]]

----------------------------------------------------------------------------
(* cacheService: the pieces of get and set *)

\* get, line 42: Math.floor((new Date(dbCache.expires_at) - new Date()) / 1000)
remainingTtl(expiresAt, t0) == (expiresAt - t0) \div MsPerSecond

\* get, lines 38-46: a durable hit repopulates the fast tier with the rest of
\* the TTL.
getPopulateMem(m, key, row, t0) ==
  IF row.has THEN memSet(m, key, row.v, remainingTtl(row.exp, t0), t0) ELSE m

\* set, lines 67-68
ttlSeconds(ttlHours) == ttlHours * SecondsPerHour
expiresAtOf(ttlHours, t0) == t0 + ttlHours * SecondsPerHour * MsPerSecond

----------------------------------------------------------------------------
(* The ledger as the scorers read it.  A transaction is                    *)
(* {product_id, total_amount, status, ts}: total_amount in whole dollars,  *)
(* ts in whole hours since the model's epoch (negative: before it).        *)

HoursPerDay == 24
HoursPerMonth == HoursPerDay * 30

Max(a, b) == IF a >= b THEN a ELSE b
Min(a, b) == IF a <= b THEN a ELSE b

\* a / b rounded to the nearest integer (toFixed), for a >= 0, b > 0
RoundDiv(a, b) == (2 * a + b) \div (2 * b)

\* an age in hours where the code takes whole days
hoursSince(tsHours, t0) == (t0 \div MsPerHour) - tsHours

\* Math.floor((t0 - timestamp) / (1000 * 60 * 60 * 24))
daysSince(tsHours, t0) == ((t0 \div MsPerHour) - tsHours) \div HoursPerDay

RECURSIVE SumAmount(_)
\* transactions.reduce((sum, t) => sum + parseFloat(t.total_amount), 0)
SumAmount(txs) ==
  IF txs = <<>> THEN 0 ELSE Head(txs).total_amount + SumAmount(Tail(txs))

Reverse(s) == [i \in 1..Len(s) |-> s[Len(s) + 1 - i]]

\* a findAll without the status filter
anyStatusAsc(txs) == txs

\* Transaction.findAll({where: {customer_id, status: 'completed'}, order: ASC})
completedAsc(txs) == SelectSeq(txs, LAMBDA t : t.status = "completed")
\* ... order: [['timestamp', 'DESC']]
completedDesc(txs) == Reverse(completedAsc(txs))

\* Transaction.count({where: {status: 'failed', timestamp >= t0 - 90 days}})
failedLast90Days(txs, t0) ==
  Len(SelectSeq(txs, LAMBDA t :
        /\ t.status = "failed"
        /\ t.ts >= (0 - ((0 - t0) \div MsPerHour)) - 90 * HoursPerDay))

----------------------------------------------------------------------------
(* RFM scorer *)

\* a recency score that starts from 0
calculateRecencyScoreFromZero(days) ==
  IF days <= 30 THEN 4 ELSE IF days <= 60 THEN 3 ELSE IF days <= 90 THEN 2
  ELSE IF days <= 180 THEN 1 ELSE 0

calculateRecencyScore(days) ==
  IF days <= 30 THEN 5 ELSE IF days <= 60 THEN 4 ELSE IF days <= 90 THEN 3
  ELSE IF days <= 180 THEN 2 ELSE 1

calculateFrequencyScore(count) ==
  IF count >= 20 THEN 5 ELSE IF count >= 10 THEN 4 ELSE IF count >= 5 THEN 3
  ELSE IF count >= 2 THEN 2 ELSE 1

calculateMonetaryScore(amount) ==
  IF amount >= 10000 THEN 5 ELSE IF amount >= 5000 THEN 4
  ELSE IF amount >= 2000 THEN 3 ELSE IF amount >= 500 THEN 2 ELSE 1

\* the Lost rule tried before the At Risk rule
determineSegmentLostFirst(rfmScore, r, f, m) ==
  IF rfmScore >= 13 /\ r >= 4 /\ f >= 4 /\ m >= 4 THEN "Champions"
  ELSE IF rfmScore >= 10 /\ f >= 3 /\ m >= 3 THEN "Loyal"
  ELSE IF rfmScore <= 7 \/ r = 1 THEN "Lost"
  ELSE IF rfmScore >= 8 /\ r <= 2 /\ (f >= 3 \/ m >= 3) THEN "At Risk"
  ELSE "Potential"

determineSegment(rfmScore, r, f, m) ==
  IF rfmScore >= 13 /\ r >= 4 /\ f >= 4 /\ m >= 4 THEN "Champions"
  ELSE IF rfmScore >= 10 /\ f >= 3 /\ m >= 3 THEN "Loyal"
  ELSE IF rfmScore >= 8 /\ r <= 2 /\ (f >= 3 \/ m >= 3) THEN "At Risk"
  ELSE IF rfmScore <= 7 \/ r = 1 THEN "Lost"
  ELSE "Potential"

\* calculateCustomerRFM for an existing customer: txs are the customer's
\* completed transactions, newest first.
calculateCustomerRFM(customerId, txs, t0) ==
  IF txs = <<>> THEN
    [customer_id |-> customerId, recency_days |-> 9999, recency_score |-> 1,
     frequency_count |-> 0, frequency_score |-> 1, monetary_value |-> 0,
     monetary_score |-> 1, rfm_score |-> 3, rfm_segment |-> "Lost"]
  ELSE
    LET recencyDays == daysSince(txs[1].ts, t0)
        frequencyCount == Len(txs)
        monetaryValue == SumAmount(txs)
        recencyScore == calculateRecencyScore(recencyDays)
        frequencyScore == calculateFrequencyScore(frequencyCount)
        monetaryScore == calculateMonetaryScore(monetaryValue)
        rfmScore == recencyScore + frequencyScore + monetaryScore
    IN [customer_id |-> customerId, recency_days |-> recencyDays,
        recency_score |-> recencyScore, frequency_count |-> frequencyCount,
        frequency_score |-> frequencyScore, monetary_value |-> monetaryValue,
        monetary_score |-> monetaryScore, rfm_score |-> rfmScore,
        rfm_segment |-> determineSegment(rfmScore, recencyScore,
                                         frequencyScore, monetaryScore)]

\* isDataStale(lastCalculated, hours): hoursDiff > hours
isDataStale(lastCalculated, hours, t0) == t0 - lastCalculated > hours * MsPerHour

----------------------------------------------------------------------------
(* CLV predictor.  clv_predicted is in cents, the multiplier in hundredths, *)
(* lifespanMonths is carried as lifespanMonths30 = 30 * lifespanMonths.     *)

calculateCLVConfidence(totalOrders, lifespanMonths30, daysSinceLastPurchase) ==
  LET byOrders == IF totalOrders >= 10 THEN 25 ELSE IF totalOrders >= 5 THEN 15
                  ELSE IF totalOrders >= 3 THEN 5 ELSE 0
      byHistory == IF lifespanMonths30 >= 12 * 30 THEN 15
                   ELSE IF lifespanMonths30 >= 6 * 30 THEN 10
                   ELSE IF lifespanMonths30 >= 3 * 30 THEN 5 ELSE 0
      byRecency == IF daysSinceLastPurchase <= 30 THEN 10
                   ELSE IF daysSinceLastPurchase <= 60 THEN 5
                   ELSE IF daysSinceLastPurchase > 180 THEN 0 - 15 ELSE 0
  IN Max(0, Min(100, 50 + byOrders + byHistory + byRecency))

\* calculateCustomerCLV for an existing customer: txs are the customer's
\* completed transactions, oldest first.  (The metrics sub-record is left out.)
calculateCustomerCLV(customerId, txs, t0) ==
  IF txs = <<>> THEN
    [customer_id |-> customerId, clv_predicted |-> 0, clv_confidence |-> 0]
  ELSE
    LET totalSpent == SumAmount(txs)
        totalOrders == Len(txs)
        lifespanDays == Max(1, (txs[Len(txs)].ts - txs[1].ts) \div HoursPerDay)
        lifespanMonths30 == Max(30, lifespanDays)
        \* purchaseFrequency = totalOrders / lifespanMonths
        freqAtLeast(n) == 30 * totalOrders >= n * lifespanMonths30
        daysSinceLastPurchase == daysSince(txs[Len(txs)].ts, t0)
        recent == SubSeq(txs, Len(txs) - 2, Len(txs))
        older == SubSeq(txs, 1, Len(txs) - 3)
        declining ==
          /\ totalOrders >= 3 /\ Len(older) > 0
          \* recentAvg < olderAvg * 0.7
          /\ SumAmount(recent) * Len(older) * 10 < SumAmount(older) * 3 * 7
        raw == 100
               + (IF daysSinceLastPurchase <= 30 THEN 30
                  ELSE IF daysSinceLastPurchase <= 60 THEN 15 ELSE 0)
               + (IF freqAtLeast(2) THEN 25 ELSE IF freqAtLeast(1) THEN 15 ELSE 0)
               - (IF declining THEN 20 ELSE 0)
        clvMultiplier == Max(50, Min(200, raw))
        \* basicCLV = averageOrderValue * purchaseFrequency * 24
        \*          = totalSpent * 24 * 30 / lifespanMonths30
    IN [customer_id |-> customerId,
        clv_predicted |-> RoundDiv(totalSpent * 24 * 30 * clvMultiplier,
                                   lifespanMonths30),
        clv_confidence |-> calculateCLVConfidence(totalOrders, lifespanMonths30,
                                                  daysSinceLastPurchase)]

----------------------------------------------------------------------------
(* Churn scorer.  A purchase frequency is the fraction <<num, den>>.       *)

\* transactions newest first; purchases per month over the span they cover
calculatePurchaseFrequency(txs) ==
  IF Len(txs) < 2 THEN <<0, 1>>
  ELSE <<Len(txs) * HoursPerMonth,
         Max(HoursPerMonth, txs[1].ts - txs[Len(txs)].ts)>>

\* a < b * (tenths / 10) for fractions a, b
FracBelow(a, b, tenths) == a[1] * b[2] * 10 < b[1] * a[2] * tenths

\* levels that start ten points higher
churnRiskLevelShifted(churnScore) ==
  IF churnScore >= 80 THEN "critical" ELSE IF churnScore >= 60 THEN "high"
  ELSE IF churnScore >= 40 THEN "medium" ELSE "low"

churnRiskLevel(churnScore) ==
  IF churnScore >= 70 THEN "critical" ELSE IF churnScore >= 50 THEN "high"
  ELSE IF churnScore >= 30 THEN "medium" ELSE "low"

\* calculateChurnRisk for an existing customer: txs are the customer's
\* completed transactions, newest first; failedTransactions the count of
\* failed ones in the last 90 days.  Each factor is <<points, indicators>>.
\* (prevention_strategies is left out.)
calculateChurnRisk(customer, txs, failedTransactions, t0) ==
  IF txs = <<>> THEN
    [customer_id |-> customer.id, churn_risk_score |-> 100,
     churn_risk_level |-> "critical",
     churn_indicators |-> <<"no_purchase_history">>]
  ELSE
    LET n == Len(txs)
        half == n \div 2
        recent == SubSeq(txs, 1, half)
        older == SubSeq(txs, half + 1, n)
        daysSinceLastPurchase == daysSince(txs[1].ts, t0)
        f1 == IF daysSinceLastPurchase > 180 THEN <<40, <<"no_purchase_6_months">> >>
              ELSE IF daysSinceLastPurchase > 90 THEN <<30, <<"no_purchase_3_months">> >>
              ELSE IF daysSinceLastPurchase > 60 THEN <<15, <<"declining_activity">> >>
              ELSE <<0, <<>> >>
        recentFrequency == calculatePurchaseFrequency(recent)
        olderFrequency == calculatePurchaseFrequency(older)
        f2 == IF n >= 4 /\ FracBelow(recentFrequency, olderFrequency, 5)
                THEN <<25, <<"frequency_decline_50%">> >>
              ELSE IF n >= 4 /\ FracBelow(recentFrequency, olderFrequency, 7)
                THEN <<15, <<"frequency_decline_30%">> >>
              ELSE <<0, <<>> >>
        \* recentSpend = sum(recent) / floor(n/2), olderSpend = sum(older) / ceil(n/2)
        recentSpend == <<SumAmount(recent), half>>
        olderSpend == <<SumAmount(older), n - half>>
        f3 == IF n >= 4 /\ FracBelow(recentSpend, olderSpend, 6)
                THEN <<20, <<"spending_decline_40%">> >>
              ELSE IF n >= 4 /\ FracBelow(recentSpend, olderSpend, 8)
                THEN <<10, <<"spending_decline_20%">> >>
              ELSE <<0, <<>> >>
        f4 == IF failedTransactions >= 3 THEN <<15, <<"multiple_failed_transactions">> >>
              ELSE IF failedTransactions >= 1 THEN <<5, <<"failed_transaction">> >>
              ELSE <<0, <<>> >>
        \* lastAmount < avgAmount * 0.5
        f5 == IF n >= 3 /\ FracBelow(<<txs[1].total_amount, 1>>, <<SumAmount(txs), n>>, 5)
                THEN <<10, <<"low_value_last_order">> >>
              ELSE <<0, <<>> >>
        f6 == IF customer.loyalty_tier = "Bronze" \/ customer.loyalty_tier = ""
                THEN <<10, <<"low_loyalty_tier">> >>
              ELSE <<0, <<>> >>
        churnScore == Min(100, f1[1] + f2[1] + f3[1] + f4[1] + f5[1] + f6[1])
    IN [customer_id |-> customer.id, churn_risk_score |-> churnScore,
        churn_risk_level |-> churnRiskLevel(churnScore),
        churn_indicators |-> f1[2] \o f2[2] \o f3[2] \o f4[2] \o f5[2] \o f6[2]]

----------------------------------------------------------------------------
(* Calls in flight *)

Idle == [kind |-> "idle", pc |-> "done", key |-> <<>>, v |-> Null, ttl |-> 0,
         type |-> "", at |-> 0, exp |-> 0, row |-> NoRow, ret |-> Null]

NoCall == [op |-> "none"]

NoRoundTrip == [on |-> FALSE, key |-> <<>>, v |-> Null]

\* A completed call keeps what its caller sees: what was asked, when, and the result.
Done(c, result) == [Idle EXCEPT !.kind = c.kind, !.key = c.key, !.at = c.at,
                                !.ret = result]

\* Caller q has a call in flight that can still write key k in either tier.
Touching(q, k) ==
  /\ call[q].pc # "done"
  /\ \/ call[q].kind = "clear"
     \/ call[q].kind \in {"get", "set", "del"} /\ call[q].key = k

\* A write to key k (or to every key) by caller p ends the undisturbed
\* round trips of the other callers on that key.
Disturb(p, keys) ==
  [q \in Procs |->
     IF q # p /\ rt[q].on /\ rt[q].key \in keys THEN NoRoundTrip ELSE rt[q]]

InitCache ==
  /\ now = 0
  /\ advances = 0
  /\ issued = 0
  /\ mem = [k \in CacheKeys |-> NoEntry]
  /\ db = [k \in CacheKeys |-> NoRow]
  /\ call = [p \in Procs |-> Idle]
  /\ lastExp = [k \in CacheKeys |-> 0]
  /\ rt = [p \in Procs |-> NoRoundTrip]
  /\ customers = <<>> /\ ledger = <<>> /\ products = <<>>
  /\ rows = <<>> /\ recs = <<>>
  /\ last = NoCall

\* The clock moves on: by a second at any moment, by most of an hour only
\* between calls (no data-store round trip takes an hour).
AdvanceCache ==
  /\ advances < MaxAdvances
  /\ \E d \in ClockDeltas :
       /\ d > MsPerSecond => \A p \in Procs : call[p].pc = "done"
       /\ now' = now + d
  /\ advances' = advances + 1
  /\ UNCHANGED <<mem, db, call, issued, lastExp, rt>>
  /\ UNCHANGED <<storeVars, derivedVars, last>>

\* get(key), lines 24-36: the fast tier first; on a miss the durable read is
\* issued with Date.now() as of this moment.
getMemory(p, k) ==
  /\ call[p].pc = "done"
  /\ issued < MaxCalls
  /\ issued' = issued + 1
  /\ LET hit == memGet(mem, k, now) IN
     /\ mem' = memAfterGet(mem, k, now)
     /\ call' = [call EXCEPT ![p] =
          [Idle EXCEPT !.kind = "get", !.key = k, !.at = now,
                       !.pc = IF hit # Null THEN "done" ELSE "db",
                       !.ret = hit]]
  /\ rt' = [rt EXCEPT ![p] = IF rt[p].key = k THEN rt[p] ELSE NoRoundTrip]
  /\ UNCHANGED <<now, advances, db, lastExp>>
  /\ UNCHANGED <<storeVars, derivedVars, last>>

\* get, lines 31-36: the durable read runs.
getDatabase(p) ==
  /\ call[p].kind = "get" /\ call[p].pc = "db"
  /\ call' = [call EXCEPT ![p].row = dbFindOne(db, call[p].key, call[p].at),
                          ![p].pc = "populate"]
  /\ UNCHANGED <<now, advances, issued, mem, db, lastExp, rt>>
  /\ UNCHANGED <<storeVars, derivedVars, last>>

\* get, lines 38-49: back from the durable read.
getPopulate(p) ==
  /\ call[p].kind = "get" /\ call[p].pc = "populate"
  /\ mem' = getPopulateMem(mem, call[p].key, call[p].row, now)
  /\ call' = [call EXCEPT ![p] =
       Done(call[p], IF call[p].row.has THEN call[p].row.v ELSE Null)]
  /\ UNCHANGED <<now, advances, issued, db, lastExp, rt>>
  /\ UNCHANGED <<storeVars, derivedVars, last>>

\* set(key, value, ttlHours, cacheType), lines 67-71: the fast tier is written
\* before the durable write is awaited.
setMemory(p, k, v, ttlHours, type) ==
  /\ call[p].pc = "done"
  /\ issued < MaxCalls
  /\ issued' = issued + 1
  /\ mem' = memSet(mem, k, v, ttlSeconds(ttlHours), now)
  /\ call' = [call EXCEPT ![p] =
       [Idle EXCEPT !.kind = "set", !.key = k, !.v = v, !.ttl = ttlHours,
                    !.type = type, !.at = now, !.exp = expiresAtOf(ttlHours, now),
                    !.pc = "db"]]
  /\ lastExp' = [lastExp EXCEPT ![k] = expiresAtOf(ttlHours, now)]
  /\ rt' = [Disturb(p, {k}) EXCEPT ![p] =
       [on |-> \A q \in Procs \ {p} : ~Touching(q, k),
        key |-> k, v |-> v]]
  /\ UNCHANGED <<now, advances, db>>
  /\ UNCHANGED <<storeVars, derivedVars, last>>

\* set, lines 74-82: the durable upsert runs.
setDatabase(p) ==
  /\ call[p].kind = "set" /\ call[p].pc = "db"
  /\ db' = dbUpsert(db, call[p].key, call[p].v, call[p].type, call[p].exp)
  /\ call' = [call EXCEPT ![p] = Done(call[p], [ok |-> TRUE])]
  /\ UNCHANGED <<now, advances, issued, mem, lastExp, rt>>
  /\ UNCHANGED <<storeVars, derivedVars, last>>

\* del(key), line 98
delMemory(p, k) ==
  /\ call[p].pc = "done"
  /\ issued < MaxCalls
  /\ issued' = issued + 1
  /\ mem' = memDel(mem, k)
  /\ call' = [call EXCEPT ![p] = [Idle EXCEPT !.kind = "del", !.key = k,
                                              !.at = now, !.pc = "db"]]
  /\ rt' = [Disturb(p, {k}) EXCEPT ![p] = NoRoundTrip]
  /\ UNCHANGED <<now, advances, db, lastExp>>
  /\ UNCHANGED <<storeVars, derivedVars, last>>

\* del, lines 101-106
delDatabase(p) ==
  /\ call[p].kind = "del" /\ call[p].pc = "db"
  /\ db' = dbDestroyKey(db, call[p].key)
  /\ call' = [call EXCEPT ![p] = Done(call[p], [ok |-> TRUE])]
  /\ UNCHANGED <<now, advances, issued, mem, lastExp, rt>>
  /\ UNCHANGED <<storeVars, derivedVars, last>>

\* clear(cacheType), line 122: the whole fast tier is flushed, whatever the type.
clearMemory(p, type) ==
  /\ call[p].pc = "done"
  /\ issued < MaxCalls
  /\ issued' = issued + 1
  /\ mem' = memFlushAll(mem)
  /\ call' = [call EXCEPT ![p] = [Idle EXCEPT !.kind = "clear", !.type = type,
                                              !.at = now, !.pc = "db"]]
  /\ rt' = [Disturb(p, DOMAIN mem) EXCEPT ![p] = NoRoundTrip]
  /\ UNCHANGED <<now, advances, db, lastExp>>
  /\ UNCHANGED <<storeVars, derivedVars, last>>

\* clear, lines 125-129: only the rows of the type are destroyed.
clearDatabase(p) ==
  /\ call[p].kind = "clear" /\ call[p].pc = "db"
  /\ db' = dbDestroyType(db, call[p].type)
  /\ call' = [call EXCEPT ![p] = Done(call[p], [ok |-> TRUE])]
  /\ UNCHANGED <<now, advances, issued, mem, lastExp, rt>>
  /\ UNCHANGED <<storeVars, derivedVars, last>>

\* cleanExpired(), lines 175-182
cleanExpired(p) ==
  /\ call[p].pc = "done"
  /\ issued < MaxCalls
  /\ issued' = issued + 1
  /\ db' = dbDestroyExpired(db, now)
  /\ call' = [call EXCEPT ![p] = [Idle EXCEPT !.kind = "cleanExpired",
                                              !.at = now, !.pc = "done"]]
  /\ rt' = [rt EXCEPT ![p] = NoRoundTrip]
  /\ UNCHANGED <<now, advances, mem, lastExp>>
  /\ UNCHANGED <<storeVars, derivedVars, last>>

NextCache ==
  \/ AdvanceCache
  \/ \E p \in Procs, k \in DOMAIN mem : getMemory(p, k)
  \/ \E p \in Procs : getDatabase(p)
  \/ \E p \in Procs : getPopulate(p)
  \/ \E p \in Procs, k \in DOMAIN mem, v \in CacheValues, h \in TTLHours :
       setMemory(p, k, v, h, KeyType(k))
  \/ \E p \in Procs : setDatabase(p)
  \/ \E p \in Procs, k \in DOMAIN mem : delMemory(p, k)
  \/ \E p \in Procs : delDatabase(p)
  \/ \E p \in Procs, ty \in CacheTypes \cup {""} : clearMemory(p, ty)
  \/ \E p \in Procs : clearDatabase(p)
  \/ \E p \in Procs : cleanExpired(p)

SpecCache == InitCache /\ [][NextCache]_vars

----------------------------------------------------------------------------
(* Claims about the cache *)

GetDone(p) == call[p].kind = "get" /\ call[p].pc = "done"

\* C1: a get(k) issued after the absolute expiry of the most recent
\* set(k, v, ttlHours) returns absent (null), never a value.
C1_ExpiredReadIsAbsent ==
  \A p \in Procs :
    (GetDone(p) /\ call[p].at > lastExp[call[p].key]) => call[p].ret = Null

----------------------------------------------------------------------------
(* getOrSet, and get and set with a data store that can fail.  A call's    *)
(* record also keeps which of its data-store round trips failed and        *)
(* whether it raised; `rt` keeps the value of the set called last and of   *)
(* the set completed last.                                                 *)

GosIdle == [kind |-> "idle", pc |-> "done", key |-> <<>>, v |-> Null, at |-> 0,
            row |-> NoRow, ret |-> Null, raised |-> FALSE, readFailed |-> FALSE,
            writeFailed |-> FALSE, quiet |-> FALSE,
            calledLast |-> Null, completedLast |-> Null, direct |-> FALSE]

\* no set has run yet; `direct` is raised by a set not made by getOrSet,
\* `failed` by a durable write that failed
NoSets == [calledLast |-> Null, completedLast |-> Null, direct |-> FALSE,
           failed |-> FALSE]

\* At most this many calls of get, set and getOrSet are issued in a behaviour.
MaxGosCalls == 3

\* get's catch block, lines 51-54: whatever the read raised, null is returned
getCatch == [ret |-> Null, raised |-> FALSE]

\* a set that lets the failure of its durable write escape
setOutcomeRethrow(writeFailed) == [ret |-> [ok |-> ~writeFailed], raised |-> writeFailed]

\* set, lines 81-87: true after the upsert, false from the catch block
setOutcome(writeFailed) == [ret |-> [ok |-> ~writeFailed], raised |-> FALSE]

\* get(key) and getOrSet(key, computeFn, ...) both start with the fast tier
\* (lines 24-28, 148-152)
gosCall(p, kind, k) ==
  LET hit == memGet(mem, k, now)
      c == [GosIdle EXCEPT !.kind = kind, !.key = k, !.at = now,
                           !.quiet = /\ \A q \in Procs \ {p} : call[q].pc = "done"
                                     /\ now <= lastExp[k],
                           !.calledLast = rt.calledLast,
                           !.completedLast = rt.completedLast,
                           !.direct = rt.direct]
  IN /\ call[p].pc = "done"
     /\ issued < MaxGosCalls
     /\ issued' = issued + 1
     /\ mem' = memAfterGet(mem, k, now)
     /\ call' = [call EXCEPT ![p] =
          IF memLive(mem, k, now) THEN [c EXCEPT !.ret = hit]
          ELSE [c EXCEPT !.pc = "db"]]
     /\ UNCHANGED <<now, advances, db, lastExp, rt>>
     /\ UNCHANGED <<storeVars, derivedVars, last>>

\* what get's caller goes on with when get has returned null
gosMiss(c) ==
  IF c.kind = "get" THEN [c EXCEPT !.pc = "done", !.ret = getCatch.ret]
  ELSE [c EXCEPT !.pc = "compute"]

\* get, lines 31-36: the durable read runs, or fails
gosRead(p) ==
  /\ call[p].kind \in {"get", "getOrSet"} /\ call[p].pc = "db"
  /\ \E fails \in BOOLEAN :
       call' = [call EXCEPT ![p] =
         IF fails THEN gosMiss([call[p] EXCEPT !.readFailed = TRUE])
         ELSE [call[p] EXCEPT !.row = dbFindOne(db, call[p].key, call[p].at),
                              !.pc = "populate"]]
  /\ UNCHANGED <<now, advances, issued, mem, db, lastExp, rt>>
  /\ UNCHANGED <<storeVars, derivedVars, last>>

\* get, lines 38-49; getOrSet, lines 150-152
gosPopulate(p) ==
  /\ call[p].kind \in {"get", "getOrSet"} /\ call[p].pc = "populate"
  /\ mem' = getPopulateMem(mem, call[p].key, call[p].row, now)
  /\ call' = [call EXCEPT ![p] =
       IF call[p].row.has THEN [call[p] EXCEPT !.pc = "done", !.ret = call[p].row.v]
       ELSE gosMiss(call[p])]
  /\ UNCHANGED <<now, advances, issued, db, lastExp, rt>>
  /\ UNCHANGED <<storeVars, derivedVars, last>>

\* getOrSet, lines 155-156 and 163-166: computeFn runs; what it raises is
\* raised again
gosCompute(p) ==
  /\ call[p].kind = "getOrSet" /\ call[p].pc = "compute"
  /\ \/ \E v \in CacheValues : call' = [call EXCEPT ![p].v = v, ![p].pc = "set"]
     \/ call' = [call EXCEPT ![p].raised = TRUE, ![p].pc = "done"]
  /\ UNCHANGED <<now, advances, issued, mem, db, lastExp, rt>>
  /\ UNCHANGED <<storeVars, derivedVars, last>>

\* the fast-tier write of a set on k ends the quiet of the gets in flight on k
gosDisturb(p, k) ==
  [q \in Procs |->
     IF q # p /\ call[q].pc # "done" /\ call[q].key = k
     THEN [call[q] EXCEPT !.quiet = FALSE] ELSE call[q]]

\* set, lines 67-71: the fast tier is written before the durable write is awaited
gosSetMemory(p, c, ttlHours) ==
  /\ mem' = memSet(mem, c.key, c.v, ttlSeconds(ttlHours), now)
  /\ call' = [gosDisturb(p, c.key) EXCEPT ![p] = [c EXCEPT !.pc = "setdb",
                                                            !.at = now]]
  /\ lastExp' = [lastExp EXCEPT ![c.key] = expiresAtOf(ttlHours, now)]
  /\ rt' = [rt EXCEPT !.calledLast = c.v, !.direct = @ \/ c.kind = "set"]
  /\ UNCHANGED <<now, advances, db>>
  /\ UNCHANGED <<storeVars, derivedVars, last>>

\* set(key, value, ttlHours, cacheType) called directly
gosSetCall(p, k, v, ttlHours) ==
  /\ call[p].pc = "done"
  /\ issued < MaxGosCalls
  /\ issued' = issued + 1
  /\ gosSetMemory(p, [GosIdle EXCEPT !.kind = "set", !.key = k, !.v = v], ttlHours)

\* getOrSet, line 159: set called with the computed value
gosSet(p, ttlHours) ==
  /\ call[p].kind = "getOrSet" /\ call[p].pc = "set"
  /\ UNCHANGED issued
  /\ gosSetMemory(p, call[p], ttlHours)

\* set, lines 74-87: the durable upsert runs, or fails; getOrSet, lines
\* 159-161, returns the computed value whatever set returned
gosWrite(p, ttlHours) ==
  LET c == call[p] IN
  /\ c.kind \in {"set", "getOrSet"} /\ c.pc = "setdb"
  /\ \E fails \in BOOLEAN :
       LET out == setOutcome(fails) IN
       /\ db' = IF fails THEN db
                ELSE dbUpsert(db, c.key, c.v, KeyType(c.key), expiresAtOf(ttlHours, c.at))
       /\ call' = [call EXCEPT ![p] =
            [c EXCEPT !.pc = "done", !.writeFailed = fails, !.raised = out.raised,
                      !.ret = IF out.raised THEN Null
                              ELSE IF c.kind = "set" THEN out.ret ELSE c.v]]
       /\ rt' = [rt EXCEPT !.completedLast = c.v, !.failed = @ \/ fails]
  /\ UNCHANGED <<now, advances, issued, mem, lastExp>>
  /\ UNCHANGED <<storeVars, derivedVars, last>>

InitGetOrSet ==
  /\ now = 0
  /\ advances = 0
  /\ issued = 0
  /\ mem = [k \in CacheKeys |-> NoEntry]
  /\ db = [k \in CacheKeys |-> NoRow]
  /\ call = [p \in Procs |-> GosIdle]
  /\ lastExp = [k \in CacheKeys |-> 0]
  /\ rt = NoSets
  /\ customers = <<>> /\ ledger = <<>> /\ products = <<>>
  /\ rows = <<>> /\ recs = <<>>
  /\ last = NoCall

NextGetOrSet ==
  \/ (\A p \in Procs : call[p].pc = "done") /\ AdvanceCache
  \/ \E p \in Procs, k \in DOMAIN mem : gosCall(p, "get", k)
  \/ \E p \in Procs, k \in DOMAIN mem : gosCall(p, "getOrSet", k)
  \/ \E p \in Procs : gosRead(p)
  \/ \E p \in Procs : gosPopulate(p)
  \/ \E p \in Procs : gosCompute(p)
  \/ \E p \in Procs, h \in TTLHours : gosSet(p, h)
  \/ \E p \in Procs, k \in DOMAIN mem, v \in CacheValues, h \in TTLHours :
       gosSetCall(p, k, v, h)
  \/ \E p \in Procs, h \in TTLHours : gosWrite(p, h)

SpecGetOrSet == InitGetOrSet /\ [][NextGetOrSet]_vars

\* C13: two getOrSet calls on the same absent key that interleave each
\* return their own computed value without error, and a get(k) issued once
\* they have completed, with no call in flight and the entry not expired,
\* returns the value of the set that executed last.
C13_LastWriteWins ==
  /\ \A p \in Procs :
       (call[p].kind = "getOrSet" /\ call[p].pc = "done" /\ call[p].v # Null)
       => (~call[p].raised /\ call[p].ret = call[p].v)
  /\ \A p \in Procs :
       (/\ call[p].kind = "get" /\ call[p].pc = "done" /\ call[p].quiet
        /\ call[p].completedLast # Null /\ ~call[p].direct)
       => call[p].ret = call[p].completedLast

\* C29: once the set calls made on a key, those of getOrSet misses
\* included, have all run to completion in whatever interleaving and no
\* durable write has failed, the fast tier and the durable tier hold the
\* same value for the key, so that a get served from the durable tier
\* returns what a get served from the fast tier returns.
C29_TiersAgree ==
  ((\A p \in Procs : call[p].pc = "done") /\ ~rt.failed) =>
    \A k \in DOMAIN mem :
      (memLive(mem, k, now) /\ dbFindOne(db, k, now).has)
        => memGet(mem, k, now) = dbFindOne(db, k, now).v

\* C14: cache failures never surface.  A get whose durable read failed has
\* returned null; a set whose durable write failed has returned false; a
\* getOrSet has raised only if computeFn did (it then has no computed
\* value), and has otherwise returned the computed value, whichever of its
\* round trips failed.
C14_FailuresSwallowed ==
  \A p \in Procs :
    call[p].pc = "done" =>
      /\ (call[p].kind = "get" /\ call[p].readFailed)
         => (call[p].ret = Null /\ ~call[p].raised)
      /\ (call[p].kind = "set" /\ call[p].writeFailed)
         => (call[p].ret = [ok |-> FALSE] /\ ~call[p].raised)
      /\ (call[p].kind = "getOrSet")
         => /\ call[p].raised => call[p].v = Null
            /\ call[p].v # Null => (~call[p].raised /\ call[p].ret = call[p].v)

\* a getOrSet whose durable read and durable write both failed has
\* returned the computed value; a get and a set have met a failure too
C14_Witness ==
  /\ \E p \in Procs :
       /\ call[p].kind = "getOrSet" /\ call[p].pc = "done"
       /\ call[p].readFailed /\ call[p].writeFailed
       /\ call[p].ret = call[p].v /\ call[p].v # Null
  /\ \E p \in Procs :
       /\ call[p].kind \in {"get", "set"} /\ call[p].pc = "done"
       /\ call[p].readFailed \/ call[p].writeFailed

----------------------------------------------------------------------------
(* The cache service as one suspension-free call, for callers whose own    *)
(* steps are what is studied: the same tier operators, composed as get and *)
(* set compose them.                                                       *)

\* get: fast tier first, then the durable row, which repopulates the fast tier
cacheGet(m, d, key, t0) ==
  LET hit == memGet(m, key, t0)
      m1 == memAfterGet(m, key, t0)
      row == dbFindOne(d, key, t0)
  IN IF memLive(m, key, t0) THEN [hit |-> TRUE, ret |-> hit, mem |-> m1]
     ELSE IF row.has
       THEN [hit |-> TRUE, ret |-> row.v, mem |-> getPopulateMem(m1, key, row, t0)]
     ELSE [hit |-> FALSE, ret |-> Null, mem |-> m1]

\* set: both tiers, the durable one with the absolute expiry
cacheSet(m, d, key, value, ttlHours, type, t0) ==
  [mem |-> memSet(m, key, value, ttlSeconds(ttlHours), t0),
   db |-> dbUpsert(d, key, value, type, expiresAtOf(ttlHours, t0))]

----------------------------------------------------------------------------
(* customer_analytics: a sequence of rows, a row's id its position.        *)
(* NULL columns are NullNumber / NullText.                                 *)

NullNumber == 0 - 1
NullText == "NULL"

\* a row as INSERT fills it from the model's defaultValue entries
newAnalyticsRow(id, customerId, t0) ==
  [id |-> id, customer_id |-> customerId,
   recency_score |-> 0, frequency_score |-> 0, monetary_score |-> 0,
   rfm_score |-> 0, rfm_segment |-> NullText,
   recency_days |-> NullNumber, frequency_count |-> NullNumber,
   monetary_value |-> NullNumber,
   clv_predicted |-> 0, clv_confidence |-> NullNumber,
   churn_risk_score |-> 0, churn_risk_level |-> NullText,
   churn_indicators |-> <<NullText>>,
   last_calculated |-> t0]

NoAnalytics == [id |-> 0]

\* CustomerAnalytics.findOne({where: {customer_id}}): the row of lowest id
findOneAnalytics(rs, customerId) ==
  IF \E i \in DOMAIN rs : rs[i].customer_id = customerId
  THEN rs[CHOOSE i \in DOMAIN rs :
            /\ rs[i].customer_id = customerId
            /\ \A j \in DOMAIN rs : rs[j].customer_id = customerId => i <= j]
  ELSE NoAnalytics

\* CustomerAnalytics.upsert({customer_id, <RFM fields>, last_calculated}):
\* INSERT ... ON DUPLICATE KEY UPDATE.  The only key of the table is the
\* auto-incremented id, which the statement does not carry, so no duplicate
\* key ever arises and the statement inserts.
upsertRFM(rs, customerId, rfmData, t0) ==
  Append(rs, [newAnalyticsRow(Len(rs) + 1, customerId, t0) EXCEPT
                !.recency_score = rfmData.recency_score,
                !.frequency_score = rfmData.frequency_score,
                !.monetary_score = rfmData.monetary_score,
                !.rfm_score = rfmData.rfm_score,
                !.rfm_segment = rfmData.rfm_segment,
                !.recency_days = rfmData.recency_days,
                !.frequency_count = rfmData.frequency_count,
                !.monetary_value = rfmData.monetary_value])

\* a CLV writer that rewrites the whole row instead of its two columns
updateCLVWholeRow(rs, customerId, clvData) ==
  [i \in DOMAIN rs |->
     IF rs[i].customer_id = customerId
     THEN [newAnalyticsRow(i, customerId, rs[i].last_calculated) EXCEPT
             !.clv_predicted = clvData.clv_predicted,
             !.clv_confidence = clvData.clv_confidence]
     ELSE rs[i]]

\* CustomerAnalytics.update({clv_predicted, clv_confidence}, {where: {customer_id}})
updateCLV(rs, customerId, clvData) ==
  [i \in DOMAIN rs |->
     IF rs[i].customer_id = customerId
     THEN [rs[i] EXCEPT !.clv_predicted = clvData.clv_predicted,
                        !.clv_confidence = clvData.clv_confidence]
     ELSE rs[i]]

\* CustomerAnalytics.update({churn_risk_score, churn_risk_level,
\*                           churn_indicators}, {where: {customer_id}})
updateChurn(rs, customerId, churnData) ==
  [i \in DOMAIN rs |->
     IF rs[i].customer_id = customerId
     THEN [rs[i] EXCEPT !.churn_risk_score = churnData.churn_risk_score,
                        !.churn_risk_level = churnData.churn_risk_level,
                        !.churn_indicators = churnData.churn_indicators]
     ELSE rs[i]]

----------------------------------------------------------------------------
(* The scorers against the store *)

\* Customer.findByPk
customerExists(cs, customerId) == customerId \in DOMAIN cs

rfmOf(customerId, lg, t0) ==
  calculateCustomerRFM(customerId, completedDesc(lg[customerId]), t0)

clvOf(customerId, lg, t0) ==
  calculateCustomerCLV(customerId, completedAsc(lg[customerId]), t0)

churnOf(customerId, cs, lg, t0) ==
  calculateChurnRisk(cs[customerId], completedDesc(lg[customerId]),
                     failedLast90Days(lg[customerId], t0), t0)

\* one turn of each batch loop: score the customer, then write
rfmBatchStep(rs, customerId, lg, t0) ==
  upsertRFM(rs, customerId, rfmOf(customerId, lg, t0), t0)

clvBatchStep(rs, customerId, lg, t0) ==
  updateCLV(rs, customerId, clvOf(customerId, lg, t0))

churnBatchStep(rs, customerId, cs, lg, t0) ==
  updateChurn(rs, customerId, churnOf(customerId, cs, lg, t0))

\* Customer.findAll({attributes: ['id']}), in id order
RECURSIVE SetToSeq(_)
SetToSeq(S) ==
  IF S = {} THEN <<>>
  ELSE LET x == CHOOSE y \in S : \A z \in S : y <= z
       IN <<x>> \o SetToSeq(S \ {x})

customerIds(cs) == SetToSeq(DOMAIN cs)

RECURSIVE rfmBatchLoop(_, _, _, _)
rfmBatchLoop(rs, ids, lg, t0) ==
  IF ids = <<>> THEN rs
  ELSE rfmBatchLoop(rfmBatchStep(rs, Head(ids), lg, t0), Tail(ids), lg, t0)

RECURSIVE clvBatchLoop(_, _, _, _)
clvBatchLoop(rs, ids, lg, t0) ==
  IF ids = <<>> THEN rs
  ELSE clvBatchLoop(clvBatchStep(rs, Head(ids), lg, t0), Tail(ids), lg, t0)

RECURSIVE churnBatchLoop(_, _, _, _, _)
churnBatchLoop(rs, ids, cs, lg, t0) ==
  IF ids = <<>> THEN rs
  ELSE churnBatchLoop(churnBatchStep(rs, Head(ids), cs, lg, t0), Tail(ids),
                      cs, lg, t0)

----------------------------------------------------------------------------
(* The ledger's writer *)

\* every handler call of a behaviour draws on a budget of MaxHandlerCalls calls
MaxHandlerCalls == 3
Spend == issued < MaxHandlerCalls /\ issued' = issued + 1

updateLoyaltyTier(spent) ==
  IF spent >= 10000 THEN "platinum" ELSE IF spent >= 5000 THEN "gold"
  ELSE IF spent >= 1000 THEN "silver" ELSE "bronze"

\* checkStockAvailability(product_id, quantity).is_available
checkStockAvailability(ps, productId, quantity) ==
  ps[productId].stock_quantity >= quantity

\* subtotal + 10% tax + shipping (free over $100); prices are multiples of $10
totalAmount(unitPrice, quantity) ==
  LET subtotal == unitPrice * quantity
  IN subtotal + subtotal \div 10 + (IF subtotal > 100 THEN 0 ELSE 10)

\* createTransaction succeeds: customer and product exist, stock suffices,
\* the amount is within [0.01, 10000]
createTransactionAccepts(cs, ps, customerId, productId, quantity) ==
  /\ customerExists(cs, customerId)
  /\ productId \in DOMAIN ps
  /\ checkStockAvailability(ps, productId, quantity)
  /\ totalAmount(ps[productId].price, quantity) >= 1
  /\ totalAmount(ps[productId].price, quantity) <= 10000

MaxQuantity == 1

createTransaction(customerId, productId, quantity) ==
  /\ IF createTransactionAccepts(customers, products, customerId, productId, quantity)
     THEN LET total == totalAmount(products[productId].price, quantity)
              spent == customers[customerId].total_spent + total
          IN /\ ledger' = [ledger EXCEPT ![customerId] =
                  Append(@, [product_id |-> productId, total_amount |-> total,
                             status |-> "completed", ts |-> now \div MsPerHour])]
             /\ products' = [products EXCEPT ![productId].stock_quantity = @ - quantity]
             /\ customers' = [customers EXCEPT
                  ![customerId].total_spent = spent,
                  ![customerId].loyalty_tier = updateLoyaltyTier(spent)]
             /\ last' = [op |-> "createTransaction", ok |-> TRUE,
                         customer_id |-> customerId, product_id |-> productId]
     ELSE /\ UNCHANGED storeVars
          /\ last' = [op |-> "createTransaction", ok |-> FALSE,
                      customer_id |-> customerId, product_id |-> productId]
  /\ Spend
  /\ UNCHANGED <<clockVars, tierVars, flightVars, derivedVars>>

----------------------------------------------------------------------------
(* Analytics handlers.  Each runs here as one step; `last` records the     *)
(* call that has just returned: its arguments, the record the handler read *)
(* first (pre) and the value it returned (ret).                            *)

MaxRows == 4
RfmTtlHours == 24
ClvTtlHours == 168
ClvStaleMs == 7 * HoursPerDay * MsPerHour

\* a handler that returns null where the code throws
ReturnsNull(opName, customerId) ==
  [op |-> opName, ok |-> TRUE, customer_id |-> customerId, error |-> "",
   path |-> "none", ret |-> <<>>]

\* throw new Error('Customer not found'), raised again by the handler
Thrown(opName, customerId) ==
  [op |-> opName, ok |-> FALSE, customer_id |-> customerId,
   error |-> "Customer not found"]

getCustomerRFMAnalysis(customerId) ==
  LET cacheKey == generateCustomerKey(customerId, "rfm")
      cached == cacheGet(mem, db, cacheKey, now)
      analytics == findOneAnalytics(rows, customerId)
      stale == \/ analytics = NoAnalytics
               \/ isDataStale(analytics.last_calculated, RfmTtlHours, now)
      rfmData == rfmOf(customerId, ledger, now)
      rows1 == IF stale THEN upsertRFM(rows, customerId, rfmData, now) ELSE rows
      result == findOneAnalytics(rows1, customerId)
      stored == cacheSet(cached.mem, db, cacheKey, result, RfmTtlHours, "rfm", now)
  IN /\ IF cached.hit
        THEN /\ mem' = cached.mem
             /\ UNCHANGED <<db, rows>>
             /\ last' = [op |-> "getCustomerRFMAnalysis", ok |-> TRUE,
                         customer_id |-> customerId, path |-> "cached",
                         ret |-> cached.ret]
        ELSE IF stale /\ ~customerExists(customers, customerId)
        THEN /\ mem' = cached.mem
             /\ UNCHANGED <<db, rows>>
             /\ last' = Thrown("getCustomerRFMAnalysis", customerId)
        ELSE /\ stale => Len(rows) < MaxRows
             /\ rows' = rows1
             /\ mem' = stored.mem
             /\ db' = stored.db
             /\ last' = [op |-> "getCustomerRFMAnalysis", ok |-> TRUE,
                         customer_id |-> customerId,
                         path |-> IF stale THEN "recomputed" ELSE "persisted",
                         pre |-> analytics, rfm |-> rfmData, ret |-> result]
     /\ Spend
     /\ UNCHANGED <<clockVars, flightVars, storeVars, recs>>

getCustomerCLVAnalysis(customerId) ==
  LET cacheKey == generateCustomerKey(customerId, "clv")
      cached == cacheGet(mem, db, cacheKey, now)
      analytics == findOneAnalytics(rows, customerId)
      isStale == \/ analytics = NoAnalytics
                 \/ now - analytics.last_calculated > ClvStaleMs
      clvData == clvOf(customerId, ledger, now)
      stored == cacheSet(cached.mem, db, cacheKey, clvData, ClvTtlHours, "clv", now)
  IN /\ IF cached.hit
        THEN /\ mem' = cached.mem
             /\ UNCHANGED <<db, rows>>
             /\ last' = [op |-> "getCustomerCLVAnalysis", ok |-> TRUE,
                         customer_id |-> customerId, path |-> "cached",
                         ret |-> cached.ret]
        ELSE IF ~customerExists(customers, customerId)
        THEN /\ mem' = cached.mem
             /\ UNCHANGED <<db, rows>>
             /\ last' = Thrown("getCustomerCLVAnalysis", customerId)
        ELSE /\ rows' = IF isStale THEN updateCLV(rows, customerId, clvData) ELSE rows
             /\ mem' = stored.mem
             /\ db' = stored.db
             /\ last' = [op |-> "getCustomerCLVAnalysis", ok |-> TRUE,
                         customer_id |-> customerId,
                         path |-> IF isStale THEN "recomputed" ELSE "persisted",
                         pre |-> analytics, ret |-> clvData]
     /\ Spend
     /\ UNCHANGED <<clockVars, flightVars, storeVars, recs>>

getCustomerChurnAnalysis(customerId) ==
  /\ IF ~customerExists(customers, customerId)
     THEN /\ UNCHANGED rows
          /\ last' = Thrown("getCustomerChurnAnalysis", customerId)
     ELSE LET churnData == churnOf(customerId, customers, ledger, now)
          IN /\ rows' = updateChurn(rows, customerId, churnData)
             /\ last' = [op |-> "getCustomerChurnAnalysis", ok |-> TRUE,
                         customer_id |-> customerId,
                         pre |-> findOneAnalytics(rows, customerId),
                         ret |-> churnData]
  /\ Spend
  /\ UNCHANGED <<clockVars, tierVars, flightVars, storeVars, recs>>

\* The three analytics batch runs when nothing fails, start to return.
batchSummary(n) == [total |-> n, processed |-> n, failed |-> 0]

calculateAllCustomersRFM ==
  /\ Len(rows) + Cardinality(DOMAIN customers) <= MaxRows
  /\ rows' = rfmBatchLoop(rows, customerIds(customers), ledger, now)
  /\ last' = [op |-> "calculateAllCustomersRFM", ok |-> TRUE,
              ret |-> batchSummary(Cardinality(DOMAIN customers))]
  /\ Spend
  /\ UNCHANGED <<clockVars, tierVars, flightVars, storeVars, recs>>

calculateAllCustomersCLV ==
  /\ rows' = clvBatchLoop(rows, customerIds(customers), ledger, now)
  /\ last' = [op |-> "calculateAllCustomersCLV", ok |-> TRUE,
              ret |-> batchSummary(Cardinality(DOMAIN customers))]
  /\ Spend
  /\ UNCHANGED <<clockVars, tierVars, flightVars, storeVars, recs>>

calculateAllCustomersChurnRisk ==
  /\ rows' = churnBatchLoop(rows, customerIds(customers), customers, ledger, now)
  /\ last' = [op |-> "calculateAllCustomersChurnRisk", ok |-> TRUE,
              ret |-> batchSummary(Cardinality(DOMAIN customers))]
  /\ Spend
  /\ UNCHANGED <<clockVars, tierVars, flightVars, storeVars, recs>>

AnalyticsDeltas == {4 * HoursPerDay * MsPerHour}

AdvanceAnalytics ==
  /\ advances < MaxAdvances
  /\ \E d \in AnalyticsDeltas : now' = now + d
  /\ advances' = advances + 1
  /\ last' = NoCall
  /\ UNCHANGED <<tierVars, callVars, storeVars, derivedVars>>

\* ids a caller may pass: the two customers and one id that names nobody
CallerIds == {1, 2, 3}
AnalyticsKeys == {generateCustomerKey(c, ty) : c \in CallerIds, ty \in CacheTypes}

\* customer 1 bought product 1 thirty days before the epoch; customer 2 never
InitAnalytics ==
  /\ now = 0
  /\ advances = 0
  /\ mem = [k \in AnalyticsKeys |-> NoEntry]
  /\ db = [k \in AnalyticsKeys |-> NoRow]
  /\ call = [p \in Procs |-> Idle]
  /\ issued = 0
  /\ lastExp = [k \in AnalyticsKeys |-> 0]
  /\ rt = [p \in Procs |-> NoRoundTrip]
  /\ customers = (1 :> [id |-> 1, total_spent |-> 120, loyalty_tier |-> "bronze"])
              @@ (2 :> [id |-> 2, total_spent |-> 0, loyalty_tier |-> "bronze"])
  /\ ledger = (1 :> <<[product_id |-> 1, total_amount |-> 120,
                       status |-> "completed", ts |-> 0 - HoursPerMonth]>>)
           @@ (2 :> <<>>)
  /\ products = (1 :> [id |-> 1, price |-> 50, stock_quantity |-> 1])
  /\ rows = <<>>
  /\ recs = <<>>
  /\ last = NoCall

NextAnalytics ==
  \/ AdvanceAnalytics
  \/ \E c \in CallerIds : getCustomerRFMAnalysis(c)
  \/ \E c \in CallerIds : getCustomerCLVAnalysis(c)
  \/ \E c \in CallerIds : getCustomerChurnAnalysis(c)
  \/ calculateAllCustomersRFM
  \/ calculateAllCustomersCLV
  \/ calculateAllCustomersChurnRisk
  \/ \E c \in CallerIds, p \in DOMAIN products, q \in 1..MaxQuantity :
       createTransaction(c, p, q)

SpecAnalytics == InitAnalytics /\ [][NextAnalytics]_vars

----------------------------------------------------------------------------
(* Claims about the analytics store *)

rowsOf(rs, customerId) == {i \in DOMAIN rs : rs[i].customer_id = customerId}

RfmFields(r) ==
  <<r.recency_score, r.frequency_score, r.monetary_score, r.rfm_score,
    r.rfm_segment, r.recency_days, r.frequency_count, r.monetary_value>>
ClvFields(r) == <<r.clv_predicted, r.clv_confidence>>
ChurnFields(r) == <<r.churn_risk_score, r.churn_risk_level, r.churn_indicators>>

RfmWriters == {"calculateAllCustomersRFM", "getCustomerRFMAnalysis"}
ClvWriters == {"calculateAllCustomersCLV", "getCustomerCLVAnalysis"}
ChurnWriters == {"calculateAllCustomersChurnRisk", "getCustomerChurnAnalysis"}

\* C3: whatever sequence of RFM/CLV/churn batch runs and per-customer
\* analyses has run, customer_analytics holds at most one row per customer_id.
C3_OneRowPerCustomer ==
  \A c \in DOMAIN customers : Cardinality(rowsOf(rows, c)) <= 1

\* C5: when getCustomerChurnAnalysis(c) has just returned for an existing
\* customer, with or without a row for c before the call, the persisted
\* record of c carries the churn score, level and indicators it returned.
C5_ChurnPersisted ==
  (last.op = "getCustomerChurnAnalysis" /\ last.ok) =>
    LET r == findOneAnalytics(rows, last.customer_id)
    IN /\ r # NoAnalytics
       /\ ChurnFields(r) = ChurnFields(last.ret)

\* C6: when getCustomerRFMAnalysis(c) has just returned after a cache miss:
\* if the persisted record was absent or more than 24h old, the record it
\* returned, which is also the one now in the cache, carries the RFM values
\* recomputed from the ledger; otherwise it is the persisted record as read.
C6_RFMMissReturn ==
  (last.op = "getCustomerRFMAnalysis" /\ last.ok /\ last.path # "cached") =>
    LET key == generateCustomerKey(last.customer_id, "rfm")
        wasStale == \/ last.pre = NoAnalytics
                    \/ isDataStale(last.pre.last_calculated, RfmTtlHours, now)
    IN /\ memGet(mem, key, now) = last.ret
       /\ dbFindOne(db, key, now).v = last.ret
       /\ IF wasStale
          THEN /\ last.path = "recomputed"
               /\ last.ret # NoAnalytics
               /\ RfmFields(last.ret) = RfmFields(last.rfm)
          ELSE /\ last.path = "persisted"
               /\ last.ret = last.pre

\* C7: every scorer writes only its own columns: across an RFM write (batch
\* or the recompute branch) every row that existed, and the record read for
\* every customer that had one, keeps its CLV and churn columns; across a
\* CLV write they keep the RFM and churn columns and last_calculated; across
\* a churn write they keep the RFM and CLV columns and last_calculated.
C7_Kept(before, after) ==
  /\ last'.op \in RfmWriters =>
       ClvFields(after) = ClvFields(before) /\ ChurnFields(after) = ChurnFields(before)
  /\ last'.op \in ClvWriters =>
       /\ RfmFields(after) = RfmFields(before)
       /\ ChurnFields(after) = ChurnFields(before)
       /\ after.last_calculated = before.last_calculated
  /\ last'.op \in ChurnWriters =>
       /\ RfmFields(after) = RfmFields(before)
       /\ ClvFields(after) = ClvFields(before)
       /\ after.last_calculated = before.last_calculated

C7_FrameStep ==
  /\ \A i \in DOMAIN rows :
       /\ i \in DOMAIN rows'
       /\ rows'[i].customer_id = rows[i].customer_id
       /\ C7_Kept(rows[i], rows'[i])
  /\ \A c \in DOMAIN customers :
       findOneAnalytics(rows, c) # NoAnalytics =>
         C7_Kept(findOneAnalytics(rows, c), findOneAnalytics(rows', c))

C7_ScorersWriteOwnFields == [][C7_FrameStep]_vars

\* a CLV write has just acted on a row whose RFM and churn columns had been
\* written before, and set its CLV columns
C7_Witness ==
  /\ last.op \in ClvWriters
  /\ last.ok
  /\ \E i \in DOMAIN rows :
       /\ rows[i].rfm_score > 0
       /\ rows[i].churn_risk_level # NullText
       /\ rows[i].clv_predicted > 0

----------------------------------------------------------------------------
(* Recommendation engine.  A source list item is {product_id, score, type, *)
(* reason}; recommendation_score is in hundredths.                         *)

\* customerTransactions.map(t => t.product_id)
purchasedProductIds(lg, customerId) ==
  {lg[customerId][i].product_id :
     i \in {j \in DOMAIN lg[customerId] : lg[customerId][j].status = "completed"}}

\* COUNT(product_id) over the completed transactions of the given customers
purchaseCount(lg, buyers, productId) ==
  LET hits(c) == {i \in DOMAIN lg[c] :
                    lg[c][i].status = "completed" /\ lg[c][i].product_id = productId}
      RECURSIVE total(_)
      total(S) == IF S = {} THEN 0
                  ELSE LET c == CHOOSE x \in S : TRUE
                       IN Cardinality(hits(c)) + total(S \ {c})
  IN total(buyers)

\* GROUP BY product_id over those transactions, purchased products left out
groupCounts(lg, ps, buyers, purchased) ==
  LET cand == {p \in DOMAIN ps : p \notin purchased /\ purchaseCount(lg, buyers, p) > 0}
  IN [p \in cand |-> purchaseCount(lg, buyers, p)]

\* ORDER BY count DESC LIMIT n: any n groups no smaller than the ones left out
TopK(cnt, n) ==
  {S \in SUBSET DOMAIN cnt :
     /\ Cardinality(S) = Min(n, Cardinality(DOMAIN cnt))
     /\ \A a \in S, b \in DOMAIN cnt \ S : cnt[a] >= cnt[b]}

\* Product.findAll({id in chosen, stock_quantity > 0}) mapped to source items
sourceList(ps, cnt, chosen, type, reason) ==
  LET inStock == {p \in chosen : ps[p].stock_quantity > 0}
      ids == SetToSeq(inStock)
  IN [i \in DOMAIN ids |->
        [product_id |-> ids[i], score |-> cnt[ids[i]], type |-> type, reason |-> reason]]

\* customers with a completed transaction on one of the purchased products
affinityBuyers(lg, purchased) ==
  {c \in DOMAIN lg : purchasedProductIds(lg, c) \cap purchased # {}}

affinityCounts(lg, ps, purchased) ==
  IF purchased = {} THEN <<>>
  ELSE groupCounts(lg, ps, affinityBuyers(lg, purchased), purchased)

\* customers other than customerId with a row in the same segment
similarCustomerIds(rs, customerId) ==
  LET analytics == findOneAnalytics(rs, customerId)
  IN IF analytics = NoAnalytics \/ analytics.rfm_segment = NullText THEN {}
     ELSE {rs[i].customer_id :
             i \in {j \in DOMAIN rs : /\ rs[j].rfm_segment = analytics.rfm_segment
                                      /\ rs[j].customer_id # customerId}}

collaborativeCounts(lg, ps, rs, customerId, purchased) ==
  IF similarCustomerIds(rs, customerId) = {} THEN <<>>
  ELSE groupCounts(lg, ps, similarCustomerIds(rs, customerId) \cap DOMAIN lg, purchased)

segmentCustomerIds(rs, customerId) ==
  LET analytics == findOneAnalytics(rs, customerId)
  IN IF analytics = NoAnalytics THEN {}
     ELSE {rs[i].customer_id :
             i \in {j \in DOMAIN rs : rs[j].rfm_segment = analytics.rfm_segment}}

segmentCounts(lg, ps, rs, customerId, purchased) ==
  IF findOneAnalytics(rs, customerId) = NoAnalytics THEN <<>>
  ELSE groupCounts(lg, ps, segmentCustomerIds(rs, customerId) \cap DOMAIN lg, purchased)

segmentOf(rs, customerId) ==
  IF findOneAnalytics(rs, customerId) = NoAnalytics THEN NullText
  ELSE findOneAnalytics(rs, customerId).rfm_segment

\* scores measured down from the maximum: -1 to 0 in place of 0 to 1
normalizeScoreFromMax(score, allScores) ==
  IF Len(allScores) = 0 THEN <<0, 1>>
  ELSE LET scores == {allScores[i].score : i \in DOMAIN allScores}
           maxScore == CHOOSE x \in scores : \A y \in scores : x >= y
           minScore == CHOOSE x \in scores : \A y \in scores : x <= y
       IN IF maxScore = minScore THEN <<1, 1>>
          ELSE <<score - maxScore, maxScore - minScore>>

\* normalizeScore, as the fraction <<num, den>>
normalizeScore(score, allScores) ==
  IF Len(allScores) = 0 THEN <<0, 1>>
  ELSE LET scores == {allScores[i].score : i \in DOMAIN allScores}
           maxScore == CHOOSE x \in scores : \A y \in scores : x >= y
           minScore == CHOOSE x \in scores : \A y \in scores : x <= y
       IN IF maxScore = minScore THEN <<1, 1>>
          ELSE <<score - minScore, maxScore - minScore>>

RECURSIVE sortByScoreDesc(_)
\* Array.prototype.sort((a, b) => b.recommendation_score - a.recommendation_score),
\* which is stable
sortByScoreDesc(s) ==
  IF s = <<>> THEN <<>>
  ELSE LET rest == sortByScoreDesc(Tail(s))
           x == Head(s)
           k == Cardinality({i \in DOMAIN rest :
                               rest[i].recommendation_score > x.recommendation_score})
       IN SubSeq(rest, 1, k) \o <<x>> \o SubSeq(rest, k + 1, Len(rest))

productIdsOf(list) == {list[i].product_id : i \in DOMAIN list}
itemOf(list, p) == list[CHOOSE i \in DOMAIN list : list[i].product_id = p]

\* weights {affinity: 0.4, collaborative: 0.3, segment: 0.3}, in hundredths
WeightAffinity == 40
WeightCollaborative == 30
WeightSegment == 30

combineRecommendations(affinity, collaborative, segment) ==
  LET part(list, p) == IF p \in productIdsOf(list)
                       THEN normalizeScore(itemOf(list, p).score, list)
                       ELSE <<0, 1>>
      \* the Map's insertion order
      seen == SelectSeq(affinity, LAMBDA r : TRUE)
              \o SelectSeq(collaborative,
                           LAMBDA r : r.product_id \notin productIdsOf(affinity))
              \o SelectSeq(segment,
                           LAMBDA r : r.product_id \notin
                                        productIdsOf(affinity) \cup productIdsOf(collaborative))
      from(list, p) == IF p \in productIdsOf(list) THEN <<itemOf(list, p)>> ELSE <<>>
      entry(p) ==
        LET a == part(affinity, p)
            c == part(collaborative, p)
            g == part(segment, p)
            contrib == from(affinity, p) \o from(collaborative, p) \o from(segment, p)
        IN [product_id |-> p,
            \* parseFloat((totalScore * 100).toFixed(2))
            recommendation_score |->
              RoundDiv(100 * (WeightAffinity * a[1] * c[2] * g[2]
                              + WeightCollaborative * c[1] * a[2] * g[2]
                              + WeightSegment * g[1] * a[2] * c[2]),
                       a[2] * c[2] * g[2]),
            recommendation_types |-> [i \in DOMAIN contrib |-> contrib[i].type],
            reasons |-> [i \in DOMAIN contrib |-> contrib[i].reason]]
  IN sortByScoreDesc([i \in DOMAIN seen |-> entry(seen[i].product_id)])

\* Array.prototype.slice(0, limit)
slice(list, limit) == SubSeq(list, 1, Min(limit, Len(list)))

----------------------------------------------------------------------------
(* product_recommendations and the handler *)

RecTtlHours == 12

\* recommendation_types.join(',')
joinTypes(types) ==
  IF types = <<"affinity">> THEN "affinity"
  ELSE IF types = <<"collaborative">> THEN "collaborative"
  ELSE IF types = <<"segment">> THEN "segment"
  ELSE IF types = <<"affinity", "collaborative">> THEN "affinity,collaborative"
  ELSE IF types = <<"affinity", "segment">> THEN "affinity,segment"
  ELSE IF types = <<"collaborative", "segment">> THEN "collaborative,segment"
  ELSE IF types = <<"affinity", "collaborative", "segment">>
    THEN "affinity,collaborative,segment"
  ELSE ""

\* the orders ORDER BY recommendation_score DESC may return a set of rows in
Orderings(S) ==
  {q \in [1..Cardinality(S) -> S] :
     /\ \A i, j \in 1..Cardinality(S) : i # j => q[i] # q[j]
     /\ \A i, j \in 1..Cardinality(S) :
          i < j => q[i].recommendation_score >= q[j].recommendation_score}

\* the rows getCachedRecommendations selects: customer's, generated within 12h
recentRecommendations(rc, customerId, t0) ==
  {rc[i] : i \in {j \in DOMAIN rc :
                    /\ rc[j].customer_id = customerId
                    /\ rc[j].generated_at >= t0 - RecTtlHours * MsPerHour}}

\* ... mapped to what the handler returns on this path
getCachedRecommendations(ordered) ==
  [i \in DOMAIN ordered |->
     [product_id |-> ordered[i].product_id,
      recommendation_score |-> ordered[i].recommendation_score,
      recommendation_type |-> ordered[i].recommendation_type,
      reason |-> ordered[i].reason]]

\* ProductRecommendation.destroy({where: {customer_id}})
destroyRecommendations(rc, customerId) ==
  SelectSeq(rc, LAMBDA r : r.customer_id # customerId)

\* the records bulkCreate inserts
recommendationRecords(customerId, recommendations, t0) ==
  [i \in DOMAIN recommendations |->
     [customer_id |-> customerId,
      product_id |-> recommendations[i].product_id,
      recommendation_score |-> recommendations[i].recommendation_score,
      recommendation_type |-> joinTypes(recommendations[i].recommendation_types),
      reason |-> recommendations[i].reasons[1],
      generated_at |-> t0,
      expires_at |-> t0 + RecTtlHours * MsPerHour]]

\* cacheRecommendations: destroy the customer's rows, bulkCreate the new ones
cacheRecommendations(rc, customerId, recommendations, t0) ==
  destroyRecommendations(rc, customerId)
  \o recommendationRecords(customerId, recommendations, t0)

ReasonAffinity == [text |-> "Frequently bought together with your previous purchases"]
ReasonCollaborative(seg) == [text |-> "Popular among customers like you", segment |-> seg]
ReasonSegment(seg) == [text |-> "Top choice for segment", segment |-> seg]

generatePersonalizedRecommendations(customerId, limit) ==
  LET cacheKey == generateCustomerKey(customerId, "recommendations")
      cached == cacheGet(mem, db, cacheKey, now)
      recent == recentRecommendations(recs, customerId, now)
      purchased == purchasedProductIds(ledger, customerId)
      aCnt == affinityCounts(ledger, products, purchased)
      cCnt == collaborativeCounts(ledger, products, rows, customerId, purchased)
      sCnt == segmentCounts(ledger, products, rows, customerId, purchased)
      seg == segmentOf(rows, customerId)
  IN /\ IF ~customerExists(customers, customerId)
        THEN /\ UNCHANGED <<mem, db, recs>>
             /\ last' = Thrown("generatePersonalizedRecommendations", customerId)
        ELSE IF cached.hit /\ Len(cached.ret) > 0
        THEN /\ mem' = cached.mem
             /\ UNCHANGED <<db, recs>>
             /\ last' = [op |-> "generatePersonalizedRecommendations", ok |-> TRUE,
                         customer_id |-> customerId, limit |-> limit,
                         path |-> "cached", ret |-> slice(cached.ret, limit)]
        ELSE IF recent # {}
        THEN \E ordered \in Orderings(recent) :
               LET result == slice(getCachedRecommendations(ordered), limit)
                   stored == cacheSet(cached.mem, db, cacheKey, result, RecTtlHours,
                                      "recommendations", now)
               IN /\ mem' = stored.mem
                  /\ db' = stored.db
                  /\ UNCHANGED recs
                  /\ last' = [op |-> "generatePersonalizedRecommendations", ok |-> TRUE,
                              customer_id |-> customerId, limit |-> limit,
                              path |-> "persisted", ret |-> result]
        ELSE \E aTop \in TopK(aCnt, limit * 2), cTop \in TopK(cCnt, limit * 2),
                sTop \in TopK(sCnt, limit * 2) :
               LET affinity == sourceList(products, aCnt, aTop, "affinity", ReasonAffinity)
                   collaborative == sourceList(products, cCnt, cTop, "collaborative",
                                               ReasonCollaborative(seg))
                   segment == sourceList(products, sCnt, sTop, "segment",
                                         ReasonSegment(seg))
                   topRecommendations ==
                     slice(combineRecommendations(affinity, collaborative, segment), limit)
                   stored == cacheSet(cached.mem, db, cacheKey, topRecommendations,
                                      RecTtlHours, "recommendations", now)
               IN /\ recs' = cacheRecommendations(recs, customerId, topRecommendations, now)
                  /\ mem' = stored.mem
                  /\ db' = stored.db
                  /\ last' = [op |-> "generatePersonalizedRecommendations", ok |-> TRUE,
                              customer_id |-> customerId, limit |-> limit,
                              path |-> "recomputed", ret |-> topRecommendations]
     /\ Spend
     /\ UNCHANGED <<clockVars, flightVars, storeVars, rows>>

\* clear(cacheType) as one step: flush the fast tier, destroy the rows of the type
clearCache(cacheType) ==
  /\ mem' = memFlushAll(mem)
  /\ db' = dbDestroyType(db, cacheType)
  /\ last' = [op |-> "clear", ok |-> TRUE, type |-> cacheType]
  /\ Spend
  /\ UNCHANGED <<clockVars, flightVars, storeVars, derivedVars>>

MaxLimit == 2
RecoDeltas == {(RecTtlHours + 1) * MsPerHour}

AdvanceReco ==
  /\ advances < MaxAdvances
  /\ \E d \in RecoDeltas : now' = now + d
  /\ advances' = advances + 1
  /\ last' = NoCall
  /\ UNCHANGED <<tierVars, callVars, storeVars, derivedVars>>

RecoKeys == {generateCustomerKey(c, "recommendations") : c \in CallerIds}

\* customers 1 and 2 both bought product 1, customer 2 also product 2
InitReco ==
  /\ now = 0
  /\ advances = 0
  /\ mem = [k \in RecoKeys |-> NoEntry]
  /\ db = [k \in RecoKeys |-> NoRow]
  /\ call = [p \in Procs |-> Idle]
  /\ issued = 0
  /\ lastExp = [k \in RecoKeys |-> 0]
  /\ rt = [p \in Procs |-> NoRoundTrip]
  /\ customers = (1 :> [id |-> 1, total_spent |-> 65, loyalty_tier |-> "bronze"])
              @@ (2 :> [id |-> 2, total_spent |-> 130, loyalty_tier |-> "bronze"])
  /\ ledger = (1 :> <<[product_id |-> 1, total_amount |-> 65,
                       status |-> "completed", ts |-> 0 - HoursPerMonth]>>)
           @@ (2 :> <<[product_id |-> 1, total_amount |-> 65,
                       status |-> "completed", ts |-> 0 - HoursPerMonth],
                      [product_id |-> 2, total_amount |-> 65,
                       status |-> "completed", ts |-> 0 - HoursPerDay]>>)
  /\ products = (1 :> [id |-> 1, price |-> 50, stock_quantity |-> 1])
             @@ (2 :> [id |-> 2, price |-> 50, stock_quantity |-> 1])
  /\ rows = <<>>
  /\ recs = <<>>
  /\ last = NoCall

NextReco ==
  \/ AdvanceReco
  \/ \E c \in CallerIds, limit \in 1..MaxLimit :
       generatePersonalizedRecommendations(c, limit)
  \/ \E c \in CallerIds, p \in DOMAIN products, q \in 1..MaxQuantity :
       createTransaction(c, p, q)
  \/ calculateAllCustomersRFM
  \/ clearCache("recommendations")

SpecReco == InitReco /\ [][NextReco]_vars

\* C2: a list generatePersonalizedRecommendations(c, limit) has just
\* returned, from the cache, from the persisted rows or from a recompute,
\* names no product c has a completed transaction on and no product whose
\* stock_quantity is 0, as of the call.
C2_NoPurchasedNoZeroStock ==
  (last.op = "generatePersonalizedRecommendations" /\ last.ok) =>
    \A i \in DOMAIN last.ret :
      /\ last.ret[i].product_id \notin purchasedProductIds(ledger, last.customer_id)
      /\ products[last.ret[i].product_id].stock_quantity > 0

\* the step is a call of generatePersonalizedRecommendations that returned
recoReturned ==
  /\ issued' = issued + 1
  /\ last'.op = "generatePersonalizedRecommendations"
  /\ last'.ok

C11_Step ==
  recoReturned =>
    LET c == last'.customer_id
        held == cacheGet(mem, db, generateCustomerKey(c, "recommendations"), now)
    IN IF held.hit
       THEN /\ last'.path = "cached"
            /\ last'.ret = slice(held.ret, last'.limit)
            /\ recs' = recs
       ELSE IF recentRecommendations(recs, c, now) # {}
       THEN /\ last'.path = "persisted"
            /\ recs' = recs
            /\ cacheGet(mem', db', generateCustomerKey(c, "recommendations"), now).hit
       ELSE last'.path = "recomputed"

\* C11: generatePersonalizedRecommendations(c, limit) resolves in a fixed
\* order: an entry the cache holds under c's recommendations key is served
\* with no read of the persisted rows and no recompute; otherwise persisted
\* rows of c generated within the last 12h are served and written to the
\* cache with no recompute; a recompute runs only when both are absent.
C11_ResolutionOrder == [][C11_Step]_vars

\* the fields of the elements the handler is to return
RecommendationFields ==
  {"product_id", "recommendation_score", "recommendation_types", "reasons"}

\* C26: on each of the three resolution paths (cache hit, persisted rows,
\* recompute) every element of the array generatePersonalizedRecommendations
\* returns has the fields product, recommendation_score,
\* recommendation_types and reasons, and the array is sorted by
\* recommendation_score descending and has at most `limit` elements.
C26_SameShapeOnEveryPath ==
  (last.op = "generatePersonalizedRecommendations" /\ last.ok) =>
    /\ Len(last.ret) <= last.limit
    /\ \A i \in DOMAIN last.ret : DOMAIN last.ret[i] = RecommendationFields
    /\ \A i, j \in DOMAIN last.ret :
         i < j => last.ret[i].recommendation_score >= last.ret[j].recommendation_score

----------------------------------------------------------------------------
(* generatePersonalizedRecommendations called with different limits over   *)
(* stores nothing else writes to: no purchase, no restocking, no scoring.  *)

\* customer 1 bought product 1; customer 2 bought product 1, product 2 twice
\* and product 3
InitRecoLimits ==
  /\ now = 0
  /\ advances = 0
  /\ mem = [k \in RecoKeys |-> NoEntry]
  /\ db = [k \in RecoKeys |-> NoRow]
  /\ call = [p \in Procs |-> Idle]
  /\ issued = 0
  /\ lastExp = [k \in RecoKeys |-> 0]
  /\ rt = [p \in Procs |-> NoRoundTrip]
  /\ customers = (1 :> [id |-> 1, total_spent |-> 65, loyalty_tier |-> "bronze"])
              @@ (2 :> [id |-> 2, total_spent |-> 260, loyalty_tier |-> "bronze"])
  /\ ledger = (1 :> <<[product_id |-> 1, total_amount |-> 65,
                       status |-> "completed", ts |-> 0 - HoursPerMonth]>>)
           @@ (2 :> [i \in 1..4 |->
                      [product_id |-> <<1, 2, 2, 3>>[i], total_amount |-> 65,
                       status |-> "completed", ts |-> 0 - HoursPerDay]])
  /\ products = [p \in 1..3 |-> [id |-> p, price |-> 50, stock_quantity |-> 1]]
  /\ rows = <<>>
  /\ recs = <<>>
  /\ last = NoCall

NextRecoLimits ==
  \/ AdvanceReco
  \/ \E c \in CallerIds, limit \in 1..MaxLimit :
       generatePersonalizedRecommendations(c, limit)
  \/ clearCache("recommendations")

SpecRecoLimits == InitRecoLimits /\ [][NextRecoLimits]_vars

\* the lists a first call generatePersonalizedRecommendations(c, limit)
\* computes from the ledger, the stock and the analytics as they are
firstCallResults(customerId, limit) ==
  LET purchased == purchasedProductIds(ledger, customerId)
      aCnt == affinityCounts(ledger, products, purchased)
      cCnt == collaborativeCounts(ledger, products, rows, customerId, purchased)
      sCnt == segmentCounts(ledger, products, rows, customerId, purchased)
      seg == segmentOf(rows, customerId)
  IN {slice(combineRecommendations(
              sourceList(products, aCnt, aTop, "affinity", ReasonAffinity),
              sourceList(products, cCnt, cTop, "collaborative",
                         ReasonCollaborative(seg)),
              sourceList(products, sCnt, sTop, "segment", ReasonSegment(seg))),
            limit) :
        aTop \in TopK(aCnt, limit * 2), cTop \in TopK(cCnt, limit * 2),
        sTop \in TopK(sCnt, limit * 2)}

\* the same products with the same scores in the same order
sameRanking(a, b) ==
  /\ Len(a) = Len(b)
  /\ \A i \in DOMAIN a :
       /\ a[i].product_id = b[i].product_id
       /\ a[i].recommendation_score = b[i].recommendation_score

\* C30: while the ledger, the stock and the analytics stay as they are, the
\* list generatePersonalizedRecommendations(c, L) returns is the one a first
\* call for c returns, whatever calls came before it, a call with a smaller
\* limit included.
C30_IndependentOfEarlierCalls ==
  (last.op = "generatePersonalizedRecommendations" /\ last.ok) =>
    \E first \in firstCallResults(last.customer_id, last.limit) :
      sameRanking(last.ret, first)

----------------------------------------------------------------------------
(* generatePersonalizedRecommendations call by call: two callers (a request *)
(* and the batch run, or two requests) whose calls are suspended at their   *)
(* data-store round trips.  Here `call` holds each caller's position and    *)
(* `rt` the row sets its calls have inserted.                               *)

SubAlgorithms == {"affinity", "collaborative", "segment"}

RecoIdle == [pc |-> "done", customer_id |-> 0, limit |-> 0, top |-> <<>>, failed |-> {}]

recoResult(c, path, ret) ==
  [op |-> "generatePersonalizedRecommendations", ok |-> TRUE,
   customer_id |-> c.customer_id, limit |-> c.limit, path |-> path, ret |-> ret,
   failed |-> c.failed]

\* lines 19-30: Customer.findByPk, then cacheService.get
recoBegin(p, customerId, limit) ==
  LET cacheKey == generateCustomerKey(customerId, "recommendations")
      cached == cacheGet(mem, db, cacheKey, now)
      c == [RecoIdle EXCEPT !.customer_id = customerId, !.limit = limit]
  IN /\ call[p].pc = "done"
     /\ Spend
     /\ IF ~customerExists(customers, customerId)
        THEN /\ UNCHANGED <<mem, call>>
             /\ last' = Thrown("generatePersonalizedRecommendations", customerId)
        ELSE IF cached.hit /\ Len(cached.ret) > 0
        THEN /\ mem' = cached.mem
             /\ UNCHANGED call
             /\ last' = recoResult(c, "cached", slice(cached.ret, limit))
        ELSE /\ mem' = cached.mem
             /\ call' = [call EXCEPT ![p] = [c EXCEPT !.pc = "persisted"]]
             /\ last' = NoCall
     /\ UNCHANGED <<clockVars, db, lastExp, rt, storeVars, derivedVars>>

\* lines 33-38: getCachedRecommendations; rows found are cached and returned
recoPersisted(p) ==
  LET c == call[p]
      cacheKey == generateCustomerKey(c.customer_id, "recommendations")
      recent == recentRecommendations(recs, c.customer_id, now)
  IN /\ c.pc = "persisted"
     /\ IF recent # {}
        THEN \E ordered \in Orderings(recent) :
               LET result == slice(getCachedRecommendations(ordered), c.limit)
                   stored == cacheSet(mem, db, cacheKey, result, RecTtlHours,
                                      "recommendations", now)
               IN /\ mem' = stored.mem
                  /\ db' = stored.db
                  /\ call' = [call EXCEPT ![p] = RecoIdle]
                  /\ last' = recoResult(c, "persisted", result)
        ELSE /\ call' = [call EXCEPT ![p].pc = "compute"]
             /\ last' = NoCall
             /\ UNCHANGED <<mem, db>>
     /\ UNCHANGED <<clockVars, issued, lastExp, rt, storeVars, derivedVars>>

\* the sub-algorithms that issue a data-store read, so that one can fail
readsStore(purchased) ==
  IF purchased = {} THEN SubAlgorithms \ {"affinity"} ELSE SubAlgorithms

\* lines 42-83: the three sub-algorithms, each of which returns [] from its
\* catch block when one of its reads fails, then combine and slice
recoCompute(p) ==
  LET c == call[p]
      purchased == purchasedProductIds(ledger, c.customer_id)
      aCnt == affinityCounts(ledger, products, purchased)
      cCnt == collaborativeCounts(ledger, products, rows, c.customer_id, purchased)
      sCnt == segmentCounts(ledger, products, rows, c.customer_id, purchased)
      seg == segmentOf(rows, c.customer_id)
  IN /\ c.pc = "compute"
     /\ \E failed \in SUBSET readsStore(purchased),
           aTop \in TopK(aCnt, c.limit * 2), cTop \in TopK(cCnt, c.limit * 2),
           sTop \in TopK(sCnt, c.limit * 2) :
          LET affinity ==
                IF "affinity" \in failed THEN <<>>
                ELSE sourceList(products, aCnt, aTop, "affinity", ReasonAffinity)
              collaborative ==
                IF "collaborative" \in failed THEN <<>>
                ELSE sourceList(products, cCnt, cTop, "collaborative",
                                ReasonCollaborative(seg))
              segment ==
                IF "segment" \in failed THEN <<>>
                ELSE sourceList(products, sCnt, sTop, "segment", ReasonSegment(seg))
          IN call' = [call EXCEPT
               ![p].pc = "destroy",
               ![p].failed = failed,
               ![p].top = slice(combineRecommendations(affinity, collaborative, segment),
                                c.limit)]
     /\ last' = NoCall
     /\ UNCHANGED <<clockVars, tierVars, issued, lastExp, rt, storeVars, derivedVars>>

\* cacheRecommendations, lines 447-449: the destroy
recoDestroy(p) ==
  /\ call[p].pc = "destroy"
  /\ recs' = destroyRecommendations(recs, call[p].customer_id)
  /\ call' = [call EXCEPT ![p].pc = "bulkCreate"]
  /\ last' = NoCall
  /\ UNCHANGED <<clockVars, tierVars, issued, lastExp, rt, storeVars, rows>>

\* cacheRecommendations, lines 452-464: the bulkCreate
recoBulkCreate(p) ==
  LET records == recommendationRecords(call[p].customer_id, call[p].top, now)
  IN /\ call[p].pc = "bulkCreate"
     /\ recs' = recs \o records
     /\ rt' = [rt EXCEPT ![p] = @ \cup {[customer_id |-> call[p].customer_id,
                                         records |-> {records[i] : i \in DOMAIN records}]}]
     /\ call' = [call EXCEPT ![p].pc = "set"]
     /\ last' = NoCall
     /\ UNCHANGED <<clockVars, tierVars, issued, lastExp, storeVars, rows>>

\* lines 85-88: cacheService.set, return
recoSet(p) ==
  LET c == call[p]
      stored == cacheSet(mem, db, generateCustomerKey(c.customer_id, "recommendations"),
                         c.top, RecTtlHours, "recommendations", now)
  IN /\ c.pc = "set"
     /\ mem' = stored.mem
     /\ db' = stored.db
     /\ call' = [call EXCEPT ![p] = RecoIdle]
     /\ last' = recoResult(c, "recomputed", c.top)
     /\ UNCHANGED <<clockVars, issued, lastExp, rt, storeVars, derivedVars>>

recoAllDone == \A p \in Procs : call[p].pc = "done"

\* the stores as in InitReco, no call in flight
InitRecoSteps ==
  /\ now = 0
  /\ advances = 0
  /\ mem = [k \in RecoKeys |-> NoEntry]
  /\ db = [k \in RecoKeys |-> NoRow]
  /\ call = [p \in Procs |-> RecoIdle]
  /\ issued = 0
  /\ lastExp = [k \in RecoKeys |-> 0]
  /\ rt = [p \in Procs |-> {}]
  /\ customers = (1 :> [id |-> 1, total_spent |-> 65, loyalty_tier |-> "bronze"])
              @@ (2 :> [id |-> 2, total_spent |-> 130, loyalty_tier |-> "bronze"])
  /\ ledger = (1 :> <<[product_id |-> 1, total_amount |-> 65,
                       status |-> "completed", ts |-> 0 - HoursPerMonth]>>)
           @@ (2 :> <<[product_id |-> 1, total_amount |-> 65,
                       status |-> "completed", ts |-> 0 - HoursPerMonth],
                      [product_id |-> 2, total_amount |-> 65,
                       status |-> "completed", ts |-> 0 - HoursPerDay]>>)
  /\ products = (1 :> [id |-> 1, price |-> 50, stock_quantity |-> 1])
             @@ (2 :> [id |-> 2, price |-> 50, stock_quantity |-> 1])
  /\ rows = <<>>
  /\ recs = <<>>
  /\ last = NoCall

NextRecoSteps ==
  \/ recoAllDone /\ AdvanceReco
  \/ \E p \in Procs, c \in CallerIds, limit \in 1..MaxLimit : recoBegin(p, c, limit)
  \/ \E p \in Procs : recoPersisted(p)
  \/ \E p \in Procs : recoCompute(p)
  \/ \E p \in Procs : recoDestroy(p)
  \/ \E p \in Procs : recoBulkCreate(p)
  \/ \E p \in Procs : recoSet(p)
  \/ /\ recoAllDone
     /\ \E c \in CallerIds, p \in DOMAIN products, q \in 1..MaxQuantity :
          createTransaction(c, p, q)

SpecRecoSteps == InitRecoSteps /\ [][NextRecoSteps]_vars

\* the rows of customerId, by position and as a set
recIndexes(customerId) == {i \in DOMAIN recs : recs[i].customer_id = customerId}
recSet(customerId) == {recs[i] : i \in recIndexes(customerId)}

\* some call has inserted a row set for customerId
recoInserted(customerId) ==
  \E p \in Procs : \E s \in rt[p] : s.customer_id = customerId

\* C12: once all calls of generatePersonalizedRecommendations have completed,
\* the persisted rows of each customer are exactly the set one of the calls
\* inserted: at most one row per (customer, product), and no row left over
\* from an earlier set.
C12_RowsAreOneCallsSet ==
  recoAllDone =>
    \A c \in CallerIds :
      /\ Cardinality(recIndexes(c)) = Cardinality({recs[i].product_id : i \in recIndexes(c)})
      /\ IF recoInserted(c)
         THEN \E p \in Procs : [customer_id |-> c, records |-> recSet(c)] \in rt[p]
         ELSE recSet(c) = {}

\* C18: a call of generatePersonalizedRecommendations during whose recompute
\* a data-store read of a sub-algorithm failed does not return a list, and
\* neither persists nor caches one.
C18_NoPartialResult ==
  /\ (last.op = "generatePersonalizedRecommendations" /\ last.ok) => last.failed = {}
  /\ \A p \in Procs : call[p].pc = "set" => call[p].failed = {}

----------------------------------------------------------------------------
(* The cache service call by call, each call one step, over the keys of    *)
(* two customers and a segment key: what del, invalidateCustomerCache and  *)
(* clear remove and what they leave.                                       *)

\* `segment:${segment}:${type}`
generateSegmentKey(segment, type) == <<"segment", segment, type>>

\* the key set of invalidateCustomerCache, lines 233-239
CustomerKeyTypes == {"rfm", "clv", "churn", "recommendations", "complete"}
customerKeys(customerId) == {generateCustomerKey(customerId, t) : t \in CustomerKeyTypes}

\* a del that leaves the durable row in place
cacheDelMemoryOnly(m, d, key) == [mem |-> memDel(m, key), db |-> d]

\* del(key): both tiers
cacheDel(m, d, key) == [mem |-> memDel(m, key), db |-> dbDestroyKey(d, key)]

\* a clear that destroys the rows of every type
cacheClearAll(m, d, cacheType) == [mem |-> memFlushAll(m), db |-> dbDestroyType(d, "")]

\* clear(cacheType): the fast tier whole, the durable rows of the type
cacheClear(m, d, cacheType) == [mem |-> memFlushAll(m), db |-> dbDestroyType(d, cacheType)]

RECURSIVE delEach(_, _, _)
\* for (const key of keys) await del(key)
delEach(m, d, keys) ==
  IF keys = {} THEN [mem |-> m, db |-> d]
  ELSE LET k == CHOOSE x \in keys : TRUE
           after == cacheDel(m, d, k)
       IN delEach(after.mem, after.db, keys \ {k})

\* the keys whose entry either tier holds
heldKeys(m, d, keys) == {k \in keys : m[k].has \/ d[k].has}

getCall(k) ==
  LET got == cacheGet(mem, db, k, now)
  IN /\ mem' = got.mem
     /\ last' = [op |-> "get", ok |-> TRUE, key |-> k, hit |-> got.hit, ret |-> got.ret]
     /\ Spend
     /\ UNCHANGED <<clockVars, db, flightVars, storeVars, derivedVars>>

setCall(k, v, ttlHours, type) ==
  LET stored == cacheSet(mem, db, k, v, ttlHours, type, now)
  IN /\ mem' = stored.mem
     /\ db' = stored.db
     /\ last' = [op |-> "set", ok |-> TRUE, key |-> k, type |-> type]
     /\ Spend
     /\ UNCHANGED <<clockVars, flightVars, storeVars, derivedVars>>

delCall(k) ==
  LET after == cacheDel(mem, db, k)
  IN /\ mem' = after.mem
     /\ db' = after.db
     /\ last' = [op |-> "del", ok |-> TRUE, key |-> k]
     /\ Spend
     /\ UNCHANGED <<clockVars, flightVars, storeVars, derivedVars>>

invalidateCustomerCache(customerId) ==
  LET after == delEach(mem, db, customerKeys(customerId))
  IN /\ mem' = after.mem
     /\ db' = after.db
     /\ last' = [op |-> "invalidateCustomerCache", ok |-> TRUE,
                 customer_id |-> customerId,
                 removed |-> heldKeys(mem, db, customerKeys(customerId))]
     /\ Spend
     /\ UNCHANGED <<clockVars, flightVars, storeVars, derivedVars>>

clearCall(cacheType) ==
  LET after == cacheClear(mem, db, cacheType)
  IN /\ mem' = after.mem
     /\ db' = after.db
     /\ last' = [op |-> "clear", ok |-> TRUE, type |-> cacheType,
                 removed |-> heldKeys(mem, db, DOMAIN mem),
                 kept |-> {k \in DOMAIN db : after.db[k].has}]
     /\ Spend
     /\ UNCHANGED <<clockVars, flightVars, storeVars, derivedVars>>

cleanExpiredCall ==
  /\ db' = dbDestroyExpired(db, now)
  /\ last' = [op |-> "cleanExpired", ok |-> TRUE]
  /\ Spend
  /\ UNCHANGED <<clockVars, mem, flightVars, storeVars, derivedVars>>

\* the keys the callers of this specification set and read
SetKeys == {generateCustomerKey(1, "rfm"), generateCustomerKey(2, "rfm"),
            generateSegmentKey("Champions", "customers")}
InvalidateKeys == customerKeys(1) \cup customerKeys(2) \cup SetKeys

InitInvalidate ==
  /\ now = 0
  /\ advances = 0
  /\ issued = 0
  /\ mem = [k \in InvalidateKeys |-> NoEntry]
  /\ db = [k \in InvalidateKeys |-> NoRow]
  /\ call = [p \in Procs |-> Idle]
  /\ lastExp = [k \in InvalidateKeys |-> 0]
  /\ rt = [p \in Procs |-> NoRoundTrip]
  /\ customers = <<>> /\ ledger = <<>> /\ products = <<>>
  /\ rows = <<>> /\ recs = <<>>
  /\ last = NoCall

NextInvalidate ==
  \/ AdvanceCache
  \/ \E k \in SetKeys : getCall(k)
  \/ \E k \in SetKeys, ty \in CacheTypes, h \in TTLHours :
       setCall(k, [data |-> 1], h, ty)
  \/ \E k \in SetKeys : delCall(k)
  \/ \E c \in {1, 2} : invalidateCustomerCache(c)
  \/ \E ty \in CacheTypes \cup {""} : clearCall(ty)
  \/ cleanExpiredCall

SpecInvalidate == InitInvalidate /\ [][NextInvalidate]_vars

C15_Step ==
  (issued' = issued + 1 /\ last'.op = "invalidateCustomerCache") =>
    LET keys == customerKeys(last'.customer_id)
    IN /\ \A k \in keys : ~cacheGet(mem', db', k, now).hit
       /\ \A k \in DOMAIN mem \ keys : mem'[k] = mem[k] /\ db'[k] = db[k]

C16_Step ==
  (issued' = issued + 1 /\ last'.op = "clear") =>
    \A k \in DOMAIN mem :
      LET after == cacheGet(mem', db', k, now)
      IN IF last'.type = ""
         THEN ~after.hit /\ ~mem'[k].has /\ ~db'[k].has
         ELSE IF db[k].has /\ db[k].type = last'.type
         THEN ~after.hit
         ELSE (db[k].has /\ db[k].exp >= now) => (after.hit /\ after.ret = db[k].v)

----------------------------------------------------------------------------
(* The four single-item read paths side by side, each call one step, for   *)
(* the two customers and for an id that names nobody.                      *)

ReadPathKeys ==
  {generateCustomerKey(c, ty) : c \in CallerIds, ty \in {"rfm", "clv", "recommendations"}}

\* the stores as in InitReco
InitReadPaths ==
  /\ now = 0
  /\ advances = 0
  /\ mem = [k \in ReadPathKeys |-> NoEntry]
  /\ db = [k \in ReadPathKeys |-> NoRow]
  /\ call = [p \in Procs |-> Idle]
  /\ issued = 0
  /\ lastExp = [k \in ReadPathKeys |-> 0]
  /\ rt = [p \in Procs |-> NoRoundTrip]
  /\ customers = (1 :> [id |-> 1, total_spent |-> 65, loyalty_tier |-> "bronze"])
              @@ (2 :> [id |-> 2, total_spent |-> 130, loyalty_tier |-> "bronze"])
  /\ ledger = (1 :> <<[product_id |-> 1, total_amount |-> 65,
                       status |-> "completed", ts |-> 0 - HoursPerMonth]>>)
           @@ (2 :> <<[product_id |-> 1, total_amount |-> 65,
                       status |-> "completed", ts |-> 0 - HoursPerMonth],
                      [product_id |-> 2, total_amount |-> 65,
                       status |-> "completed", ts |-> 0 - HoursPerDay]>>)
  /\ products = (1 :> [id |-> 1, price |-> 50, stock_quantity |-> 1])
             @@ (2 :> [id |-> 2, price |-> 50, stock_quantity |-> 1])
  /\ rows = <<>>
  /\ recs = <<>>
  /\ last = NoCall

NextReadPaths ==
  \/ AdvanceAnalytics
  \/ \E c \in CallerIds : getCustomerRFMAnalysis(c)
  \/ \E c \in CallerIds : getCustomerCLVAnalysis(c)
  \/ \E c \in CallerIds : getCustomerChurnAnalysis(c)
  \/ \E c \in CallerIds, limit \in 1..MaxLimit :
       generatePersonalizedRecommendations(c, limit)

SpecReadPaths == InitReadPaths /\ [][NextReadPaths]_vars

ReadPaths == {"getCustomerRFMAnalysis", "getCustomerCLVAnalysis",
              "getCustomerChurnAnalysis", "generatePersonalizedRecommendations"}

\* the cache key a read path looks up, if it looks one up
readPathKeys(opName, customerId) ==
  IF opName = "getCustomerRFMAnalysis" THEN {generateCustomerKey(customerId, "rfm")}
  ELSE IF opName = "getCustomerCLVAnalysis" THEN {generateCustomerKey(customerId, "clv")}
  ELSE IF opName = "generatePersonalizedRecommendations"
    THEN {generateCustomerKey(customerId, "recommendations")}
  ELSE {}

C17_Step ==
  (/\ issued' = issued + 1
   /\ last'.op \in ReadPaths
   /\ ~customerExists(customers, last'.customer_id)
   /\ heldKeys(mem, db, readPathKeys(last'.op, last'.customer_id)) = {})
  => /\ ~last'.ok
     /\ last'.error = "Customer not found"
     /\ UNCHANGED <<rows, recs, mem, db>>

\* C17: for a customer id with no customer record and no cache entry,
\* getCustomerRFMAnalysis, getCustomerCLVAnalysis, getCustomerChurnAnalysis
\* and generatePersonalizedRecommendations each fail with 'Customer not
\* found' and leave the analytics rows, the recommendation rows and both
\* cache tiers unchanged.
C17_NotFound == [][C17_Step]_vars

\* a read path has just failed for the id that names nobody, with analytics
\* rows, recommendation rows and cache entries of the customers in place
C17_Witness ==
  /\ last.op \in ReadPaths /\ ~last.ok
  /\ ~customerExists(customers, last.customer_id)
  /\ rows # <<>> /\ recs # <<>>
  /\ heldKeys(mem, db, DOMAIN mem) # {}

----------------------------------------------------------------------------
(* The three scorers applied to drawn histories.  The initial state draws   *)
(* customer 1's loyalty tier and ledger: how many completed transactions,   *)
(* how long ago the last one, the gaps and the amounts of the older and of  *)
(* the newer half, and how many failed transactions in the last days.       *)

\* The longest history drawn.
MaxOrders == 20
OrderCounts == {0, 1, 2, 3, 4, 5, 10, MaxOrders}
LastPurchaseDays == {0, 30, 31, 60, 61, 90, 91, 180, 181}
GapDays == {20, 40}
Amounts == {10, 500}
FailedCounts == {0, 1, 3}
\* Customer.loyalty_tier: ENUM('bronze', 'silver', 'gold', 'platinum'), not null
LoyaltyTiers == {"bronze", "silver", "gold", "platinum"}

\* clv_predicted, in cents, has to fit the 32-bit integers of TLC.
MaxSpendForCLV == 7000

\* n completed transactions, oldest first, and `failed` failed ones a day old
drawnHistory(n, lastDays, olderGap, recentGap, olderAmt, recentAmt, failed) ==
  LET newer(i) == 2 * i > n
      \* days between transaction i and the last one
      RECURSIVE before(_)
      before(i) == IF i >= n THEN 0
                   ELSE (IF newer(i + 1) THEN recentGap ELSE olderGap) + before(i + 1)
  IN [i \in 1..n |->
        [product_id |-> 1,
         total_amount |-> IF newer(i) THEN recentAmt ELSE olderAmt,
         status |-> "completed",
         ts |-> 0 - (lastDays + before(i)) * HoursPerDay]]
     \o [i \in 1..failed |->
           [product_id |-> 1, total_amount |-> 10, status |-> "failed",
            ts |-> 0 - HoursPerDay]]

InitScorers ==
  /\ now = 0
  /\ advances = 0
  /\ mem = <<>> /\ db = <<>>
  /\ call = [p \in Procs |-> Idle]
  /\ issued = 0
  /\ lastExp = <<>>
  /\ rt = [p \in Procs |-> NoRoundTrip]
  /\ \E tier \in LoyaltyTiers :
       customers = (1 :> [id |-> 1, total_spent |-> 0, loyalty_tier |-> tier])
  /\ \E n \in OrderCounts, lastDays \in LastPurchaseDays, olderGap \in GapDays,
        recentGap \in GapDays, olderAmt \in Amounts, recentAmt \in Amounts,
        failed \in FailedCounts :
       ledger = (1 :> drawnHistory(n, lastDays, olderGap, recentGap,
                                   olderAmt, recentAmt, failed))
  /\ products = (1 :> [id |-> 1, price |-> 50, stock_quantity |-> 1])
  /\ rows = <<>>
  /\ recs = <<>>
  /\ last = NoCall

scored(opName, result) ==
  /\ last' = [op |-> opName, ok |-> TRUE, customer_id |-> 1, ret |-> result]
  /\ UNCHANGED <<clockVars, tierVars, callVars, storeVars, derivedVars>>

applyRFM == scored("calculateCustomerRFM", rfmOf(1, ledger, now))

applyCLV ==
  /\ SumAmount(completedAsc(ledger[1])) <= MaxSpendForCLV
  /\ scored("calculateCustomerCLV", clvOf(1, ledger, now))

applyChurnRisk == scored("calculateChurnRisk", churnOf(1, customers, ledger, now))

NextScorers == applyRFM \/ applyCLV \/ applyChurnRisk

SpecScorers == InitScorers /\ [][NextScorers]_vars

\* C19: for every transaction history calculateCustomerRFM returns
\* recency_score, frequency_score and monetary_score each in 1..5 and
\* rfm_score equal to their sum, hence in 3..15, the zero-transaction
\* sentinel included.
C19_RFMScoreRange ==
  last.op = "calculateCustomerRFM" =>
    /\ last.ret.recency_score \in 1..5
    /\ last.ret.frequency_score \in 1..5
    /\ last.ret.monetary_score \in 1..5
    /\ last.ret.rfm_score = last.ret.recency_score + last.ret.frequency_score
                            + last.ret.monetary_score
    /\ last.ret.rfm_score \in 3..15

\* the scorer has returned the highest total, for a history that is not empty
C19_Witness ==
  /\ last.op = "calculateCustomerRFM"
  /\ last.ret.frequency_count > 0
  /\ last.ret.rfm_score = 15

\* C20: for every history, failed-transaction count and loyalty tier,
\* calculateCustomerCLV returns clv_confidence in 0..100 and
\* calculateChurnRisk returns churn_risk_score in 0..100 with
\* churn_risk_level critical from 70, high from 50, medium from 30, else low.
C20_ConfidenceAndChurnRange ==
  /\ last.op = "calculateCustomerCLV" => last.ret.clv_confidence \in 0..100
  /\ last.op = "calculateChurnRisk" =>
       /\ last.ret.churn_risk_score \in 0..100
       /\ last.ret.churn_risk_level =
            (IF last.ret.churn_risk_score >= 70 THEN "critical"
             ELSE IF last.ret.churn_risk_score >= 50 THEN "high"
             ELSE IF last.ret.churn_risk_score >= 30 THEN "medium" ELSE "low")

\* the churn scorer has returned the capped score for a history whose
\* factors add up to more, and not from the empty-history sentinel
C20_Witness ==
  /\ last.op = "calculateChurnRisk"
  /\ last.ret.churn_risk_score = 100
  /\ Len(last.ret.churn_indicators) >= 5

\* customer 1 exists and has no completed transaction
noCompleted ==
  /\ customerExists(customers, 1)
  /\ \A i \in 1..Len(ledger[1]) : ledger[1][i].status # "completed"

\* C21: for an existing customer with no completed transaction,
\* calculateCustomerRFM returns recency 9999 days, every sub-score 1,
\* rfm_score 3 and segment Lost; calculateCustomerCLV returns CLV 0 with
\* confidence 0; calculateChurnRisk returns score 100, level critical and
\* the single indicator no_purchase_history.
C21_ZeroTransactions ==
  noCompleted =>
    /\ last.op = "calculateCustomerRFM" =>
         /\ last.ret.recency_days = 9999
         /\ last.ret.recency_score = 1
         /\ last.ret.frequency_score = 1
         /\ last.ret.monetary_score = 1
         /\ last.ret.rfm_score = 3
         /\ last.ret.rfm_segment = "Lost"
    /\ last.op = "calculateCustomerCLV" =>
         /\ last.ret.clv_predicted = 0
         /\ last.ret.clv_confidence = 0
    /\ last.op = "calculateChurnRisk" =>
         /\ last.ret.churn_risk_score = 100
         /\ last.ret.churn_risk_level = "critical"
         /\ last.ret.churn_indicators = <<"no_purchase_history">>

\* a scorer has returned for a customer whose only transactions are failed
C21_Witness ==
  /\ noCompleted
  /\ ledger[1] # <<>>
  /\ last.op = "calculateCustomerRFM"

\* C24: for a customer with at least one completed transaction whose
\* loyalty tier is the lowest one (bronze) or unset, calculateChurnRisk
\* reports low_loyalty_tier and scores ten points (up to the cap of 100)
\* more than it does for the same history at a higher tier; at a higher
\* tier it reports no such indicator.
C24_LoyaltyRule ==
  (last.op = "calculateChurnRisk" /\ ~noCompleted) =>
    LET tier == customers[1].loyalty_tier
        lowest == tier = "bronze" \/ tier = ""
        reported == \E i \in DOMAIN last.ret.churn_indicators :
                      last.ret.churn_indicators[i] = "low_loyalty_tier"
        higher == churnOf(1, [customers EXCEPT ![1].loyalty_tier = "platinum"],
                          ledger, now)
    IN /\ reported <=> lowest
       /\ lowest => last.ret.churn_risk_score
                      = Min(100, higher.churn_risk_score + 10)
       /\ ~lowest => last.ret.churn_risk_score = higher.churn_risk_score

----------------------------------------------------------------------------
(* calculateCustomerRFM called again and again for customer 1 while the     *)
(* clock advances by half days and purchases are made.  `last` holds the    *)
(* latest call with the time it ran at, `rt` the call before it when only   *)
(* clock advances lie between the two.                                      *)

NoEarlierCall == [on |-> FALSE, at |-> 0, ret |-> NoCall]

RfmLastPurchaseDays == {0, 30, 180}

InitRfmTwice ==
  /\ now = 0
  /\ advances = 0
  /\ mem = <<>> /\ db = <<>>
  /\ call = [p \in Procs |-> Idle]
  /\ issued = 0
  /\ lastExp = <<>>
  /\ rt = NoEarlierCall
  /\ customers = (1 :> [id |-> 1, total_spent |-> 0, loyalty_tier |-> "bronze"])
  /\ \E n \in {0, 1, 2}, lastDays \in RfmLastPurchaseDays, amt \in Amounts :
       ledger = (1 :> drawnHistory(n, lastDays, 40, 40, amt, amt, 0))
  /\ products = (1 :> [id |-> 1, price |-> 50, stock_quantity |-> 1])
  /\ rows = <<>>
  /\ recs = <<>>
  /\ last = NoCall

\* new Date() moves on by half a day
AdvanceRfmTwice ==
  /\ advances < MaxAdvances
  /\ now' = now + (HoursPerDay \div 2) * MsPerHour
  /\ advances' = advances + 1
  /\ UNCHANGED <<tierVars, callVars, storeVars, derivedVars, last>>

callRFM ==
  /\ last' = [op |-> "calculateCustomerRFM", ok |-> TRUE, customer_id |-> 1,
              ret |-> rfmOf(1, ledger, now), at |-> now]
  /\ rt' = IF last.op = "calculateCustomerRFM"
           THEN [on |-> TRUE, at |-> last.at, ret |-> last.ret]
           ELSE NoEarlierCall
  /\ UNCHANGED <<clockVars, tierVars, call, issued, lastExp, storeVars, derivedVars>>

NextRfmTwice ==
  \/ AdvanceRfmTwice
  \/ callRFM
  \/ createTransaction(1, 1, 1)

SpecRfmTwice == InitRfmTwice /\ [][NextRfmTwice]_vars

\* whole days between customer 1's last completed purchase and t0
wholeDaysSincePurchase(t0) ==
  LET txs == completedDesc(ledger[1])
  IN IF txs = <<>> THEN 0
     ELSE ((t0 \div MsPerHour) - txs[1].ts) \div HoursPerDay

\* the latest call and the one before it, with no purchase between them
calledTwice == last.op = "calculateCustomerRFM" /\ rt.on

\* C22: calculateCustomerRFM invoked twice for a customer with no change to
\* the customer's completed transactions in between returns the same
\* output both times.
C22_Idempotent == calledTwice => rt.ret = last.ret

\* C22, amended: the two outputs are the same when, besides, the number of
\* whole days since the customer's last completed purchase is the same at
\* both calls.
C22_IdempotentSameDay ==
  (calledTwice /\ wholeDaysSincePurchase(rt.at) = wholeDaysSincePurchase(last.at))
    => rt.ret = last.ret

\* the second call ran later than the first, within the same whole day of
\* the age of a purchase
C22_Witness ==
  /\ calledTwice
  /\ rt.at < last.at
  /\ last.ret.frequency_count > 0
  /\ wholeDaysSincePurchase(rt.at) = wholeDaysSincePurchase(last.at)

----------------------------------------------------------------------------
(* determineSegment applied to every triple of sub-scores.  Here `call`    *)
(* holds the triple drawn and `last` the call that has returned.           *)

Scores == 1..5
Segments == {"Champions", "Loyal", "At Risk", "Lost", "Potential"}

InitSegments ==
  /\ now = 0
  /\ advances = 0
  /\ mem = <<>> /\ db = <<>>
  /\ \E r \in Scores, f \in Scores, m \in Scores : call = [r |-> r, f |-> f, m |-> m]
  /\ issued = 0
  /\ lastExp = <<>>
  /\ rt = NoEarlierCall
  /\ customers = <<>> /\ ledger = <<>> /\ products = <<>>
  /\ rows = <<>>
  /\ recs = <<>>
  /\ last = NoCall

\* determineSegment(rfmScore, r, f, m) as calculateCustomerRFM calls it
applyDetermineSegment ==
  /\ last' = [op |-> "determineSegment", r |-> call.r, f |-> call.f, m |-> call.m,
              ret |-> determineSegment(call.r + call.f + call.m,
                                       call.r, call.f, call.m)]
  /\ UNCHANGED <<clockVars, tierVars, callVars, storeVars, derivedVars>>

NextSegments == applyDetermineSegment

SpecSegments == InitSegments /\ [][NextSegments]_vars

\* C23: for r, f, m in 1..5 and total = r + f + m, determineSegment returns
\* Champions when total >= 13 and all three are >= 4; otherwise Loyal when
\* total >= 10, f >= 3 and m >= 3; otherwise At Risk when total >= 8, r <= 2
\* and (f >= 3 or m >= 3); otherwise Lost when total <= 7 or r = 1;
\* otherwise Potential: one of the five segments for every triple.
C23_FirstMatchingRule ==
  last.op = "determineSegment" =>
    LET r == last.r
        f == last.f
        m == last.m
        total == r + f + m
        champions == total >= 13 /\ r >= 4 /\ f >= 4 /\ m >= 4
        loyal == total >= 10 /\ f >= 3 /\ m >= 3
        atRisk == total >= 8 /\ r <= 2 /\ (f >= 3 \/ m >= 3)
        lost == total <= 7 \/ r = 1
    IN /\ last.ret \in Segments
       /\ last.ret = "Champions" <=> champions
       /\ last.ret = "Loyal" <=> (~champions /\ loyal)
       /\ last.ret = "At Risk" <=> (~champions /\ ~loyal /\ atRisk)
       /\ last.ret = "Lost" <=> (~champions /\ ~loyal /\ ~atRisk /\ lost)
       /\ last.ret = "Potential" <=> ~(champions \/ loyal \/ atRisk \/ lost)

\* a triple that matches both the At Risk and the Lost rule has been mapped
C23_Witness ==
  /\ last.op = "determineSegment"
  /\ last.r = 1 /\ last.f >= 3 /\ last.r + last.f + last.m >= 8
  /\ last.ret = "At Risk"

----------------------------------------------------------------------------
(* combineRecommendations applied to drawn source lists.  Here `call`      *)
(* holds the three lists, each with at most one entry per product, and     *)
(* `last` the call that has returned.                                      *)

CombineProducts == {1, 2, 3}
CombineScores == {1, 2, 4}

\* what a sub-algorithm may return: product 3, when listed, has the score 1
SourceLists(type) ==
  {[i \in 1..Cardinality(P) |->
      [product_id |-> SetToSeq(P)[i], score |-> sc[SetToSeq(P)[i]],
       type |-> type, reason |-> type]] :
     P \in SUBSET CombineProducts,
     sc \in {f \in [CombineProducts -> CombineScores] : f[3] = 1}}

InitCombine ==
  /\ now = 0
  /\ advances = 0
  /\ mem = <<>> /\ db = <<>>
  /\ \E a \in SourceLists("affinity"), c \in SourceLists("collaborative"),
        g \in SourceLists("segment") :
       call = [affinity |-> a, collaborative |-> c, segment |-> g]
  /\ issued = 0
  /\ lastExp = <<>>
  /\ rt = NoEarlierCall
  /\ customers = <<>> /\ ledger = <<>> /\ products = <<>>
  /\ rows = <<>>
  /\ recs = <<>>
  /\ last = NoCall

applyCombine ==
  /\ last' = [op |-> "combineRecommendations",
              ret |-> combineRecommendations(call.affinity, call.collaborative,
                                             call.segment)]
  /\ UNCHANGED <<clockVars, tierVars, callVars, storeVars, derivedVars>>

NextCombine == applyCombine

SpecCombine == InitCombine /\ [][NextCombine]_vars

\* the list without product p
without(list, p) == SelectSeq(list, LAMBDA r : r.product_id # p)

\* the combined score of p when, of the three lists, only `source` lists it
scoreFromOnly(source, p) ==
  LET keep(name) == IF name = source THEN call[name] ELSE without(call[name], p)
  IN itemOf(combineRecommendations(keep("affinity"), keep("collaborative"),
                                   keep("segment")), p).recommendation_score

sourcesOf(p) == {name \in DOMAIN call : p \in productIdsOf(call[name])}

\* C25: the combined score of a product that appears in one or more of the
\* three source lists is at least the score it gets when it appears in only
\* one of them, the lists being otherwise the same.
C25_MonotonicInSources ==
  last.op = "combineRecommendations" =>
    \A i \in DOMAIN last.ret :
      \A source \in sourcesOf(last.ret[i].product_id) :
        last.ret[i].recommendation_score
          >= scoreFromOnly(source, last.ret[i].product_id)

\* a product listed by all three sources has been given a score above the
\* one it gets from any single source
C25_Witness ==
  /\ last.op = "combineRecommendations"
  /\ \E i \in DOMAIN last.ret :
       /\ Cardinality(sourcesOf(last.ret[i].product_id)) = 3
       /\ \A source \in sourcesOf(last.ret[i].product_id) :
            last.ret[i].recommendation_score
              > scoreFromOnly(source, last.ret[i].product_id)

----------------------------------------------------------------------------
(* getSegmentOverview over a customer_analytics table the RFM writers fill. *)

\* 'segments:overview'
SegmentsOverviewKey == <<"segments", "overview", "segments">>

OverviewTtlHours == 6

\* SELECT rfm_segment, COUNT(id) ... GROUP BY rfm_segment, then the loop
\* that adds the counts up and the loop that fills in the percentages,
\* ((count / total_customers) * 100).toFixed(2), here in hundredths.
\* (total_value and avg_rfm_score are left out.)
segmentOverview(rs) ==
  LET names == {rs[i].rfm_segment : i \in DOMAIN rs}
      count(name) == Cardinality({i \in DOMAIN rs : rs[i].rfm_segment = name})
      RECURSIVE sum(_)
      sum(S) == IF S = {} THEN 0
                ELSE LET x == CHOOSE y \in S : TRUE IN count(x) + sum(S \ {x})
      total == sum(names)
  IN [total_customers |-> total,
      segments |-> [name \in names |->
                      [count |-> count(name),
                       percentage |-> IF total > 0
                                      THEN RoundDiv(count(name) * 10000, total)
                                      ELSE 0]]]

\* getSegmentOverview: getOrSet(cacheKey, computeFn, 6, 'segments')
getSegmentOverview ==
  LET cached == cacheGet(mem, db, SegmentsOverviewKey, now)
      overview == segmentOverview(rows)
      stored == cacheSet(cached.mem, db, SegmentsOverviewKey, overview,
                         OverviewTtlHours, "segments", now)
  IN /\ IF cached.hit
        THEN /\ mem' = cached.mem
             /\ UNCHANGED db
             /\ last' = [op |-> "getSegmentOverview", ok |-> TRUE,
                         path |-> "cached", ret |-> cached.ret]
        ELSE /\ mem' = stored.mem
             /\ db' = stored.db
             /\ last' = [op |-> "getSegmentOverview", ok |-> TRUE,
                         path |-> "computed", ret |-> overview]
     /\ Spend
     /\ UNCHANGED <<clockVars, flightVars, storeVars, derivedVars>>

OverviewKeys ==
  {generateCustomerKey(c, "rfm") : c \in CallerIds} \cup {SegmentsOverviewKey}

\* customer 1 bought once for 120 thirty days before the epoch, customer 2
\* twice for 500 and customer 3 five times for 500 the day before it
InitOverview ==
  /\ now = 0
  /\ advances = 0
  /\ mem = [k \in OverviewKeys |-> NoEntry]
  /\ db = [k \in OverviewKeys |-> NoRow]
  /\ call = [p \in Procs |-> Idle]
  /\ issued = 0
  /\ lastExp = [k \in OverviewKeys |-> 0]
  /\ rt = [p \in Procs |-> NoRoundTrip]
  /\ customers = (1 :> [id |-> 1, total_spent |-> 120, loyalty_tier |-> "bronze"])
              @@ (2 :> [id |-> 2, total_spent |-> 1000, loyalty_tier |-> "silver"])
              @@ (3 :> [id |-> 3, total_spent |-> 2500, loyalty_tier |-> "silver"])
  /\ ledger = (1 :> <<[product_id |-> 1, total_amount |-> 120,
                       status |-> "completed", ts |-> 0 - HoursPerMonth]>>)
           @@ (2 :> [i \in 1..2 |->
                      [product_id |-> 1, total_amount |-> 500,
                       status |-> "completed", ts |-> 0 - HoursPerDay]])
           @@ (3 :> [i \in 1..5 |->
                      [product_id |-> 1, total_amount |-> 500,
                       status |-> "completed", ts |-> 0 - HoursPerDay]])
  /\ products = (1 :> [id |-> 1, price |-> 50, stock_quantity |-> 1])
  /\ rows = <<>>
  /\ recs = <<>>
  /\ last = NoCall

NextOverview ==
  \/ AdvanceAnalytics
  \/ \E c \in DOMAIN customers : getCustomerRFMAnalysis(c)
  \/ calculateAllCustomersRFM
  \/ getSegmentOverview

SpecOverview == InitOverview /\ [][NextOverview]_vars

\* the customers that have an analytics record
customersWithAnalytics == {rows[i].customer_id : i \in DOMAIN rows}

\* the sum of f over the segments of an overview
RECURSIVE sumOver(_, _)
sumOver(segments, field) ==
  IF DOMAIN segments = {} THEN 0
  ELSE LET x == CHOOSE y \in DOMAIN segments : TRUE
       IN segments[x][field]
          + sumOver([n \in DOMAIN segments \ {x} |-> segments[n]], field)

\* an overview has just been computed from the table as it is
overviewComputed == last.op = "getSegmentOverview" /\ last.path = "computed"

\* C27: the overview getSegmentOverview computes has total_customers equal
\* to the sum of the per-segment counts and to the number of customers that
\* have an analytics record, and, when total_customers > 0, percentages
\* (count / total x 100 to two decimals) that add up to 100.00 to within
\* half a hundredth per segment.
C27_OverviewTotals ==
  overviewComputed =>
    /\ last.ret.total_customers = sumOver(last.ret.segments, "count")
    /\ last.ret.total_customers = Cardinality(customersWithAnalytics)
    /\ last.ret.total_customers > 0 =>
         LET off == sumOver(last.ret.segments, "percentage") - 10000
         IN /\ 2 * off <= Cardinality(DOMAIN last.ret.segments)
            /\ 0 - 2 * off <= Cardinality(DOMAIN last.ret.segments)

----------------------------------------------------------------------------
(* getRiskLevel of the fraud-detection service applied to every score.     *)
(* Here `call` holds the score drawn and `last` the call that has returned. *)

RiskScores == 0..100
RiskLevels == <<"low", "medium", "high", "critical">>

\* the thresholds of the churn scorer in place of the fraud ones
getRiskLevelChurnThresholds(score) ==
  IF score >= 70 THEN "critical" ELSE IF score >= 50 THEN "high"
  ELSE IF score >= 30 THEN "medium" ELSE "low"

getRiskLevel(score) ==
  IF score >= 90 THEN "critical" ELSE IF score >= 70 THEN "high"
  ELSE IF score >= 50 THEN "medium" ELSE "low"

InitRiskLevel ==
  /\ now = 0
  /\ advances = 0
  /\ mem = <<>> /\ db = <<>>
  /\ \E score \in RiskScores : call = [score |-> score]
  /\ issued = 0
  /\ lastExp = <<>>
  /\ rt = NoEarlierCall
  /\ customers = <<>> /\ ledger = <<>> /\ products = <<>>
  /\ rows = <<>>
  /\ recs = <<>>
  /\ last = NoCall

applyGetRiskLevel ==
  /\ last' = [op |-> "getRiskLevel", score |-> call.score,
              ret |-> getRiskLevel(call.score)]
  /\ UNCHANGED <<clockVars, tierVars, callVars, storeVars, derivedVars>>

NextRiskLevel == applyGetRiskLevel

SpecRiskLevel == InitRiskLevel /\ [][NextRiskLevel]_vars

\* the position of a level in the order low < medium < high < critical
levelRank(level) == CHOOSE i \in DOMAIN RiskLevels : RiskLevels[i] = level

\* C28: for a score in 0..100 getRiskLevel returns critical from 90, high
\* from 70 to 89, medium from 50 to 69 and low below 50: one level for each
\* score, and never a lower level for a higher score.
C28_RiskLevelPartition ==
  last.op = "getRiskLevel" =>
    /\ \E i \in DOMAIN RiskLevels : last.ret = RiskLevels[i]
    /\ last.ret = "critical" <=> last.score >= 90
    /\ last.ret = "high" <=> (last.score >= 70 /\ last.score < 90)
    /\ last.ret = "medium" <=> (last.score >= 50 /\ last.score < 70)
    /\ last.ret = "low" <=> last.score < 50
    /\ \A lower \in RiskScores :
         lower <= last.score => levelRank(getRiskLevel(lower)) <= levelRank(last.ret)

\* the level of the lowest score of the critical band has been returned
C28_Witness ==
  /\ last.op = "getRiskLevel"
  /\ last.score = 90
  /\ last.ret = "critical"

----------------------------------------------------------------------------
(* Batch runners and their scheduler.  Here `call` holds, per job, the run *)
(* in flight, and every data-store call of a turn of the loop is reduced   *)
(* to its outcome: what the stores then hold is the subject of the         *)
(* analytics and recommendation specifications above.                      *)

CronJobs == {"cronRFM", "cronCLV", "cronChurn", "cronRec"}
Jobs == CronJobs \cup {"manual"}

\* an order with CLV and churn exchanged
batchOrderSwapped == <<"rfm", "churn", "clv", "recs">>

\* the order runAllAnalyticsNow awaits the four runners in
batchOrder == <<"rfm", "clv", "churn", "recs">>

runnerOf(batch) ==
  IF batch = "rfm" THEN "calculateAllCustomersRFM"
  ELSE IF batch = "clv" THEN "calculateAllCustomersCLV"
  ELSE IF batch = "churn" THEN "calculateAllCustomersChurnRisk"
  ELSE "generateAllRecommendations"

\* the runner each cron.schedule callback awaits
cronBatch(job) ==
  IF job = "cronRFM" THEN "rfm" ELSE IF job = "cronCLV" THEN "clv"
  ELSE IF job = "cronChurn" THEN "churn" ELSE "recs"

\* '0 */6 * * *', '0 0 * * *', '0 */12 * * *', '0 2 * * *'
cronDue(job, hour) ==
  IF job = "cronRFM" THEN hour % 6 = 0
  ELSE IF job = "cronCLV" THEN hour = 0
  ELSE IF job = "cronChurn" THEN hour % 12 = 0
  ELSE hour = 2

hourOfDay(t0) == (t0 \div MsPerHour) % HoursPerDay

\* where a turn of a runner's loop can fail: reading the customer and the
\* ledger, a read inside a recommendation source, the write of the result
FailurePoints(batch) ==
  IF batch = "recs" THEN {"ledger", "source", "write"} ELSE {"ledger", "write"}

\* does a failure at the point reach the catch of the runner's loop?  The
\* scorers rethrow everything; generatePersonalizedRecommendations rethrows
\* only what its own reads raise: its sources return [] on error and
\* cacheRecommendations logs and returns.
propagates(batch, point) == batch # "recs" \/ point = "ledger"

IdleRun ==
  [state |-> "idle", batch |-> "", step |-> 0, todo |-> <<>>, inflight |-> {},
   total |-> 0, processed |-> 0, failed |-> 0,
   attempted |-> <<>>, broke |-> {}, log |-> <<>>]

\* a runner is called: Customer.findAll is pending
startBatch(run, batch, step) ==
  [IdleRun EXCEPT !.state = "listing", !.batch = batch, !.step = step,
                  !.log = Append(run.log, [ev |-> "start", batch |-> batch])]

\* a loop that starts the next customer while one is still in flight
mayBeginAlways(run) == TRUE

\* for (const customer of customers) { await ... }: the next turn starts when
\* the previous one has settled
mayBegin(run) == run.inflight = {}

batchReport(job, run, ok) ==
  [op |-> runnerOf(run.batch), job |-> job, ok |-> ok,
   ret |-> [total |-> run.total, processed |-> run.processed, failed |-> run.failed],
   attempted |-> run.attempted, broke |-> run.broke]

MaxTriggers == 1

\* runAllAnalyticsNow is called and awaits the first runner
runAllAnalyticsNow ==
  /\ call["manual"].state = "idle"
  /\ issued < MaxTriggers
  /\ issued' = issued + 1
  /\ call' = [call EXCEPT !["manual"] = startBatch(IdleRun, batchOrder[1], 1)]
  /\ last' = NoCall
  /\ UNCHANGED <<clockVars, tierVars, lastExp, rt, storeVars, derivedVars>>

MaxTicks == 3

\* the clock reaches the next full hour: every cron callback due then starts,
\* and the hourly one runs cleanExpired.  A scheduled run is taken to finish
\* within its hour.
Tick ==
  /\ advances < MaxTicks
  /\ now' = now + MsPerHour
  /\ advances' = advances + 1
  /\ \A j \in CronJobs : call[j].state = "idle"
  /\ call' = [j \in Jobs |->
                IF j \in CronJobs /\ cronDue(j, hourOfDay(now'))
                THEN startBatch(IdleRun, cronBatch(j), 1) ELSE call[j]]
  /\ db' = dbDestroyExpired(db, now')
  /\ last' = NoCall
  /\ UNCHANGED <<mem, issued, lastExp, rt, storeVars, derivedVars>>

\* Customer.findAll of a runner resolves
listCustomers(job) ==
  /\ call[job].state = "listing"
  /\ call' = [call EXCEPT ![job] =
                [@ EXCEPT !.state = "looping", !.todo = customerIds(customers),
                          !.total = Len(customerIds(customers))]]
  /\ last' = NoCall
  /\ UNCHANGED <<clockVars, tierVars, issued, lastExp, rt, storeVars, derivedVars>>

\* Customer.findAll of a runner rejects: the runner rethrows.  A cron callback
\* logs the error; runAllAnalyticsNow rethrows it to its caller.
listCustomersFails(job) ==
  /\ call[job].state = "listing"
  /\ call' = [call EXCEPT ![job] = IdleRun]
  /\ last' = IF job = "manual"
             THEN [op |-> "runAllAnalyticsNow", ok |-> FALSE,
                   log |-> Append(call[job].log,
                                  [ev |-> "raise", batch |-> call[job].batch])]
             ELSE [op |-> runnerOf(call[job].batch), job |-> job, ok |-> FALSE]
  /\ UNCHANGED <<clockVars, tierVars, issued, lastExp, rt, storeVars, derivedVars>>

\* the loop takes the next customer and starts scoring
beginCustomer(job) ==
  /\ call[job].state = "looping"
  /\ call[job].todo # <<>>
  /\ mayBegin(call[job])
  /\ call' = [call EXCEPT ![job] =
                [@ EXCEPT !.inflight = @ \cup {Head(call[job].todo)},
                          !.todo = Tail(@),
                          !.attempted = Append(@, Head(call[job].todo))]]
  /\ last' = NoCall
  /\ UNCHANGED <<clockVars, tierVars, issued, lastExp, rt, storeVars, derivedVars>>

\* the customer's scoring and write settle without a failure: processed++
settleCustomer(job, customerId) ==
  /\ customerId \in call[job].inflight
  /\ call' = [call EXCEPT ![job] =
                [@ EXCEPT !.inflight = @ \ {customerId}, !.processed = @ + 1]]
  /\ last' = NoCall
  /\ UNCHANGED <<clockVars, tierVars, issued, lastExp, rt, storeVars, derivedVars>>

\* a data-store call of the customer's turn fails at the point: the catch of
\* the loop counts it if the failure reaches it, else the turn goes on to
\* processed++
failCustomer(job, customerId, point) ==
  /\ customerId \in call[job].inflight
  /\ point \in FailurePoints(call[job].batch)
  /\ call' = [call EXCEPT ![job] =
                [@ EXCEPT !.inflight = @ \ {customerId},
                          !.broke = @ \cup {customerId},
                          !.failed = IF propagates(call[job].batch, point)
                                     THEN @ + 1 ELSE @,
                          !.processed = IF propagates(call[job].batch, point)
                                        THEN @ ELSE @ + 1]]
  /\ last' = NoCall
  /\ UNCHANGED <<clockVars, tierVars, issued, lastExp, rt, storeVars, derivedVars>>

\* the loop is over: the runner returns its summary.  A cron callback is done;
\* runAllAnalyticsNow goes on to the next runner, or to its own return.
finishBatch(job) ==
  /\ call[job].state = "looping"
  /\ call[job].todo = <<>>
  /\ call[job].inflight = {}
  /\ last' = batchReport(job, call[job], TRUE)
  /\ call' = [call EXCEPT ![job] =
       LET logged == [call[job] EXCEPT
                        !.log = Append(@, [ev |-> "return", batch |-> call[job].batch])]
       IN IF job # "manual" THEN IdleRun
          ELSE IF call[job].step < Len(batchOrder)
            THEN startBatch(logged, batchOrder[call[job].step + 1], call[job].step + 1)
          ELSE [IdleRun EXCEPT !.state = "returning", !.log = logged.log]]
  /\ UNCHANGED <<clockVars, tierVars, issued, lastExp, rt, storeVars, derivedVars>>

\* runAllAnalyticsNow returns {success: true}
returnAllAnalytics ==
  /\ call["manual"].state = "returning"
  /\ call' = [call EXCEPT !["manual"] = IdleRun]
  /\ last' = [op |-> "runAllAnalyticsNow", ok |-> TRUE, log |-> call["manual"].log]
  /\ UNCHANGED <<clockVars, tierVars, issued, lastExp, rt, storeVars, derivedVars>>

\* the service is up from the last hour of a day
StartHour == HoursPerDay - 1

InitBatch ==
  /\ now = StartHour * MsPerHour
  /\ advances = 0
  /\ mem = [k \in RecoKeys |-> NoEntry]
  /\ db = [k \in RecoKeys |-> NoRow]
  /\ call = [j \in Jobs |-> IdleRun]
  /\ issued = 0
  /\ lastExp = [k \in RecoKeys |-> 0]
  /\ rt = [p \in Procs |-> NoRoundTrip]
  /\ customers = (1 :> [id |-> 1, total_spent |-> 65, loyalty_tier |-> "bronze"])
              @@ (2 :> [id |-> 2, total_spent |-> 0, loyalty_tier |-> "bronze"])
  /\ ledger = (1 :> <<[product_id |-> 1, total_amount |-> 65,
                       status |-> "completed", ts |-> 0 - HoursPerMonth]>>)
           @@ (2 :> <<>>)
  /\ products = (1 :> [id |-> 1, price |-> 50, stock_quantity |-> 1])
  /\ rows = <<>>
  /\ recs = <<>>
  /\ last = NoCall

NextBatch ==
  \/ Tick
  \/ runAllAnalyticsNow
  \/ \E j \in Jobs : listCustomers(j)
  \/ \E j \in Jobs : listCustomersFails(j)
  \/ \E j \in Jobs : beginCustomer(j)
  \/ \E j \in Jobs, c \in DOMAIN customers : settleCustomer(j, c)
  \/ \E j \in Jobs, c \in DOMAIN customers, pt \in {"ledger", "source", "write"} :
       failCustomer(j, c, pt)
  \/ \E j \in Jobs : finishBatch(j)
  \/ returnAllAnalytics

SpecBatch == InitBatch /\ [][NextBatch]_vars

----------------------------------------------------------------------------
(* Claims about the batch runners *)

BatchRunners ==
  {"calculateAllCustomersRFM", "calculateAllCustomersCLV",
   "calculateAllCustomersChurnRisk", "generateAllRecommendations"}

\* C8: when a batch runner has just returned, whichever customers had a
\* computation or a write fail, it has attempted every customer, and its
\* summary has processed + failed = total and failed = the number of
\* customers for which something failed.
C8_ContinueOnError ==
  (last.op \in BatchRunners /\ last.ok) =>
    /\ last.attempted = customerIds(customers)
    /\ last.ret.processed + last.ret.failed = last.ret.total
    /\ last.ret.failed = Cardinality(last.broke)

C9_Order ==
  <<[ev |-> "start", batch |-> "rfm"], [ev |-> "return", batch |-> "rfm"],
    [ev |-> "start", batch |-> "clv"], [ev |-> "return", batch |-> "clv"],
    [ev |-> "start", batch |-> "churn"], [ev |-> "return", batch |-> "churn"],
    [ev |-> "start", batch |-> "recs"], [ev |-> "return", batch |-> "recs"]>>

IsPrefix(a, b) == Len(a) <= Len(b) /\ a = SubSeq(b, 1, Len(a))

\* C9: runAllAnalyticsNow starts RFM, CLV, churn, recommendations in that
\* order, each only after the one before has returned; the runner in flight
\* is the one started last; a successful return follows all four; and when
\* a runner raises, the call fails with nothing started after the raise.
C9_SequentialRunAll ==
  LET run == call["manual"]
  IN /\ IsPrefix(run.log, C9_Order)
     /\ run.state \in {"listing", "looping"} =>
          /\ run.log # <<>>
          /\ run.log[Len(run.log)] = [ev |-> "start", batch |-> run.batch]
     /\ last.op = "runAllAnalyticsNow" =>
          /\ run.state = "idle"
          /\ IF last.ok THEN last.log = C9_Order
             ELSE \E k \in 1..4 :
                    last.log = SubSeq(C9_Order, 1, 2 * k - 1)
                               \o <<[ev |-> "raise", batch |-> C9_Order[2 * k - 1].batch]>>

\* runAllAnalyticsNow has just failed: RFM had returned, CLV raised
C9_Witness ==
  /\ last.op = "runAllAnalyticsNow"
  /\ ~last.ok
  /\ Len(last.log) = 4
  /\ last.log[4] = [ev |-> "raise", batch |-> "clv"]

\* C10 (as amended): within each batch run, a customer's scoring starts only
\* after the previous customer's scoring and write have settled: no run has
\* more than one customer in flight.
C10_OneInFlightPerRun ==
  \A j \in Jobs : Cardinality(call[j].inflight) <= 1

\* a run that has settled its first customer has its second one in flight
C10_Witness ==
  \E j \in Jobs :
    /\ call[j].inflight # {}
    /\ Len(call[j].attempted) = 2
    /\ call[j].processed + call[j].failed = 1

\* C10 (as stated): at any time at most one customer's computation is in
\* flight, over all runs: scheduled ones firing at the same hour and a
\* manual run started meanwhile included.
C10_OneInFlightOverall ==
  Cardinality({<<j, c>> \in Jobs \X DOMAIN customers : c \in call[j].inflight}) <= 1

====
